---- MODULE Spec2Model ----
(***************************************************************************)
(* Z80 CPU core of as-spectrum-engine, modelled from build/untouched.wat   *)
(* (the compiled src/assembly/Z80Cpu).  The host's memory bus sits behind  *)
(* the memoryReader / memoryWriter callbacks and is modelled as a 64 KB    *)
(* RAM, as the test machine provides it.                                   *)
(***************************************************************************)
EXTENDS Integers, Naturals, Sequences, FiniteSets, TLC

VARIABLES cpu, mem, last, steps, cpuPool, engine

vars == <<cpu, mem, last, steps, cpuPool, engine>>

(***************************************************************************)
(* Bounds                                                                  *)
(***************************************************************************)
\* host calls made after the initial set-up
MaxSteps == 2

(***************************************************************************)
(* Machine arithmetic                                                      *)
(***************************************************************************)
RECURSIVE BitAnd(_, _)
\* i32.and on non-negative operands
BitAnd(a, b) ==
  IF a = 0 \/ b = 0 THEN 0
  ELSE (a % 2) * (b % 2) + 2 * BitAnd(a \div 2, b \div 2)

RECURSIVE BitOr(_, _)
\* i32.or on non-negative operands
BitOr(a, b) ==
  IF a = 0 THEN b
  ELSE IF b = 0 THEN a
  ELSE (IF a % 2 = 1 \/ b % 2 = 1 THEN 1 ELSE 0) + 2 * BitOr(a \div 2,
      b \div 2)

\* i32.store8: keeps the low 8 bits
U8(v) == v % 256

\* i32.store16: keeps the low 16 bits
U16(v) == v % 65536

\* a 64-bit value is kept as four 16-bit limbs, least significant first
I64Zero == <<0, 0, 0, 0>>

\* i64.add of a small non-negative constant, modulo 2^64
I64Add(t, n) ==
  LET s1 == t[1] + n
      s2 == t[2] + (s1 \div 65536)
      s3 == t[3] + (s2 \div 65536)
      s4 == t[4] + (s3 \div 65536)
  IN  <<U16(s1), U16(s2), U16(s3), U16(s4)>>

(***************************************************************************)
(* Enumerations                                                            *)
(***************************************************************************)
StateFlagsNone == 0
StateFlagsInt == 1
StateFlagsNmi == 2
StateFlagsReset == 4
StateFlagsHalted == 8
StateFlagsInvHalted == 247
OpPrefixModeNone == 0
OpPrefixModeExtended == 1
OpPrefixModeBit == 2
OpIndexModeNone == 0
OpIndexModeIX == 1
OpIndexModeIY == 2

(***************************************************************************)
(* Host memory behind the bus callbacks                                    *)
(***************************************************************************)
\* the memory image the host starts with
BaseMem(addr) == ((addr \div 256) * 7 + (addr % 256) * 3 + 1) % 256

\* the size of the memory, the key under which a memory holds the byte that
\* fills the addresses not stored one by one
MemSize == 65536

\* host RAM read: the last byte written to addr, else the byte the memory was
\* filled with, else the initial image
HostRead(m, addr) ==
  IF addr \in DOMAIN m THEN m[addr]
  ELSE IF MemSize \in DOMAIN m THEN m[MemSize]
  ELSE BaseMem(addr)

\* host RAM write
HostWrite(m, addr, val) ==
  [a \in (DOMAIN m) \cup {addr} |-> IF a = addr THEN val ELSE m[a]]

\* TestZ80Machine.initCode, the memory it leaves: the program from address 0
\* on and 0 at every address from the end of the program to 65535
initCode(code) ==
  [a \in (0 .. (Len(code) - 1)) \cup {MemSize} |->
     IF a = MemSize THEN 0 ELSE code[a + 1]]

(***************************************************************************)
(* Construction and RESET                                                  *)
(***************************************************************************)
\* executeReset without the store to tacts
executeReset_keepTacts(c) ==
  [c EXCEPT !.iff1 = 0, !.iff2 = 0, !.interruptMode = 0,
            !.isInterruptBlocked = 0,
            !.stateFlags = StateFlagsNone,
            !.prefixMode = OpPrefixModeNone,
            !.indexMode = OpIndexModeNone,
            !.pc = 0, !.i = 0, !.r = 0,
            !.isInOpExecution = 0]

\* Z80Cpu#executeReset
executeReset(c) ==
  [c EXCEPT !.iff1 = 0, !.iff2 = 0, !.interruptMode = 0,
            !.isInterruptBlocked = 0,
            !.stateFlags = StateFlagsNone,
            !.prefixMode = OpPrefixModeNone,
            !.indexMode = OpIndexModeNone,
            !.pc = 0, !.i = 0, !.r = 0,
            !.isInOpExecution = 0,
            !.tacts = I64Zero]

\* the field initialisers of Z80Cpu#constructor, before its executeReset call
Z80CpuFields(allowExtended) ==
  [af |-> 65535, bc |-> 65535, de |-> 65535, hl |-> 65535,
   af_sec |-> 65535, bc_sec |-> 65535, de_sec |-> 65535, hl_sec |-> 65535,
   i |-> 255, r |-> 255, pc |-> 65535, sp |-> 65535,
   ix |-> 255, iy |-> 255, wz |-> 255,
   tacts |-> I64Zero,
   stateFlags |-> StateFlagsNone,
   useGateArrayContention |-> 0,
   iff1 |-> 0, iff2 |-> 0, interruptMode |-> 0,
   isInterruptBlocked |-> 0, isInOpExecution |-> 0,
   executionFlowStatus |-> {},
   prefixMode |-> OpPrefixModeNone, indexMode |-> OpIndexModeNone,
   maskableInterruptModeEntered |-> 0, opCode |-> 255,
   allowExtendedInstructionSet |-> allowExtended]

\* Z80Cpu#constructor
Z80CpuConstructor(allowExtended) == executeReset(Z80CpuFields(allowExtended))

\* Z80Cpu#turnOn: the stores it makes, 16 bits wide at IX, IY and WZ
turnOn(c) ==
  [c EXCEPT !.af = 65535, !.bc = 65535, !.de = 65535, !.hl = 65535,
            !.af_sec = 65535, !.bc_sec = 65535, !.de_sec = 65535,
            !.hl_sec = 65535,
            !.i = 255, !.r = 255, !.pc = 65535, !.sp = 65535,
            !.ix = 255, !.iy = 255, !.wz = 255]

(***************************************************************************)
(* Register file accessors                                                 *)
(***************************************************************************)
\* the getter of a high half: (pair >> 8) & 255
getHigh(pair) == BitAnd(pair \div 256, 255)

\* the getter of a low half: pair & 255
getLow(pair) == BitAnd(pair, 255)

\* the setter of a high half stores ((v << 8) | pair) & 255
setHigh(pair, v) == U16(BitAnd(BitOr(v * 256, pair), 255))

\* the setter of a low half stores (pair & 65280) | (v & 255)
setLow(pair, v) == U16(BitOr(BitAnd(pair, 65280), BitAnd(v, 255)))

\* Z80Cpu#set:yl stores (iy & 65535) | (v & 255)
setLowYl(pair, v) == U16(BitOr(BitAnd(pair, 65535), BitAnd(v, 255)))

\* Z80Cpu#get:a
get_a(c) == getHigh(c.af)

\* Z80Cpu#get:f
get_f(c) == getLow(c.af)

\* Z80Cpu#set:a
set_a(c, v) == [c EXCEPT !.af = setHigh(@, v)]

\* Z80Cpu#set:f
set_f(c, v) == [c EXCEPT !.af = setLow(@, v)]

\* Z80Cpu#set:af
set_af(c, v) == [c EXCEPT !.af = U16(v)]

\* the names of the register pairs that have halves
PairNames == {"af", "bc", "de", "hl", "ix", "iy", "wz"}

\* the exported getter of the high half of the named pair
getHighOf(c, n) == getHigh(c[n])

\* the exported getter of the low half of the named pair
getLowOf(c, n) == getLow(c[n])

\* the exported getter of the named pair
getPairOf(c, n) == c[n]

\* the exported setter of the high half of the named pair
setHighOf(c, n, v) == [c EXCEPT ![n] = setHigh(@, v)]

\* the exported setter of the low half of the named pair
setLowOf(c, n, v) ==
  [c EXCEPT ![n] = IF n = "iy" THEN setLowYl(@, v) ELSE setLow(@, v)]

\* the exported setter of the named pair
setPairOf(c, n, v) == [c EXCEPT ![n] = U16(v)]

\* getReg8 answering code 6 with H
getReg8_sixIsH(c, regIndex) ==
  LET index == BitAnd(regIndex, 255)
  IN  CASE index = 0 -> BitAnd(c.bc \div 256, 255)
        [] index = 1 -> BitAnd(c.bc, 255)
        [] index = 2 -> BitAnd(c.de \div 256, 255)
        [] index = 3 -> BitAnd(c.de, 255)
        [] index = 4 -> BitAnd(c.hl \div 256, 255)
        [] index = 5 -> BitAnd(c.hl, 255)
        [] index = 6 -> BitAnd(c.hl \div 256, 255)
        [] index = 7 -> BitAnd(c.af \div 256, 255)
        [] OTHER -> 255

\* Z80Cpu#getReg8: the register code is taken as 8 bits
getReg8(c, regIndex) ==
  LET index == BitAnd(regIndex, 255)
  IN  CASE index = 0 -> BitAnd(c.bc \div 256, 255)
        [] index = 1 -> BitAnd(c.bc, 255)
        [] index = 2 -> BitAnd(c.de \div 256, 255)
        [] index = 3 -> BitAnd(c.de, 255)
        [] index = 4 -> BitAnd(c.hl \div 256, 255)
        [] index = 5 -> BitAnd(c.hl, 255)
        [] index = 7 -> BitAnd(c.af \div 256, 255)
        [] OTHER -> 255

\* Z80Cpu#setReg8: the register code is taken as 8 bits
setReg8(c, regIndex, v) ==
  LET index == BitAnd(regIndex, 255)
  IN  CASE index = 0 -> setHighOf(c, "bc", v)
        [] index = 1 -> setLowOf(c, "bc", v)
        [] index = 2 -> setHighOf(c, "de", v)
        [] index = 3 -> setLowOf(c, "de", v)
        [] index = 4 -> setHighOf(c, "hl", v)
        [] index = 5 -> setLowOf(c, "hl", v)
        [] index = 7 -> set_a(c, v)
        [] OTHER -> c

\* Z80Cpu#getReg16: the register code is taken as 8 bits
getReg16(c, regIndex) ==
  LET index == BitAnd(regIndex, 255)
  IN  CASE index = 0 -> c.bc
        [] index = 1 -> c.de
        [] index = 2 -> c.hl
        [] index = 3 -> c.sp
        [] OTHER -> 65535

\* Z80Cpu#setReg16: the register code is taken as 8 bits, the value is
\* passed on as newValue & 255
setReg16(c, regIndex, v) ==
  LET index == BitAnd(regIndex, 255)
  IN  CASE index = 0 -> setPairOf(c, "bc", BitAnd(v, 255))
        [] index = 1 -> setPairOf(c, "de", BitAnd(v, 255))
        [] index = 2 -> setPairOf(c, "hl", BitAnd(v, 255))
        [] index = 3 -> [c EXCEPT !.sp = U16(BitAnd(v, 255))]
        [] OTHER -> c

(***************************************************************************)
(* State snapshots                                                         *)
(***************************************************************************)
\* Z80Cpu#getCpuState: the TestZ80MachineState it fills
getCpuState(c) ==
  [a |-> get_a(c), f |-> get_f(c),
   af |-> getPairOf(c, "af"), af_sec |-> c.af_sec,
   b |-> getHighOf(c, "bc"), c |-> getLowOf(c, "bc"),
   bc |-> getPairOf(c, "bc"), bc_sec |-> c.bc_sec,
   d |-> getHighOf(c, "de"), e |-> getLowOf(c, "de"),
   de |-> getPairOf(c, "de"), de_sec |-> c.de_sec,
   h |-> getHighOf(c, "hl"), l |-> getLowOf(c, "hl"),
   hl |-> getPairOf(c, "hl"), hl_sec |-> c.hl_sec,
   i |-> c.i,
   iff1 |-> c.iff1, iff2 |-> c.iff2, indexMode |-> c.indexMode,
   interruptMode |-> c.interruptMode,
   isInOpExecution |-> c.isInOpExecution,
   isInterruptBlocked |-> c.isInterruptBlocked,
   xh |-> getHighOf(c, "ix"), xl |-> getLowOf(c, "ix"), ix |-> getPairOf(c,
       "ix"),
   yh |-> getHighOf(c, "iy"), yl |-> getLowOf(c, "iy"), iy |-> getPairOf(c,
       "iy"),
   maskableInterruptModeEntered |-> c.maskableInterruptModeEntered,
   opCode |-> c.opCode,
   pc |-> c.pc, prefixMode |-> c.prefixMode, r |-> c.r, sp |-> c.sp,
   stateFlags |-> c.stateFlags,
   tactsH |-> <<c.tacts[3], c.tacts[4]>>,
   tactsL |-> <<c.tacts[1], c.tacts[2]>>,
   useGateArrayContention |-> c.useGateArrayContention,
   wh |-> getHighOf(c, "wz"), wl |-> getLowOf(c, "wz"), wz |-> getPairOf(c,
       "wz")]

\* updateCpuState, the tacts it rebuilds: the i32 shift of the high half by
\* 32 is a shift by 0, and both halves are zero-extended and or-ed
tactsFromHalves(hi, lo) == <<BitOr(hi[1], lo[1]), BitOr(hi[2], lo[2]), 0, 0>>

\* Z80Cpu#updateCpuState
updateCpuState(c, s) ==
  LET c01 == set_af(set_f(set_a(c, s.a), s.f), s.af)
      c02 == [c01 EXCEPT !.af_sec = U16(s.af_sec)]
      c03 == setPairOf(setLowOf(setHighOf(c02, "bc", s.b), "bc", s.c), "bc",
          s.bc)
      c04 == [c03 EXCEPT !.bc_sec = U16(s.bc_sec)]
      c05 == setPairOf(setLowOf(setHighOf(c04, "de", getHighOf(c04, "de")),
          "de", s.e), "de", s.de)
      c06 == [c05 EXCEPT !.de_sec = U16(s.de_sec)]
      c07 == setPairOf(setLowOf(setHighOf(c06, "hl", s.h), "hl", s.l), "hl",
          s.hl)
      c08 == [c07 EXCEPT !.hl_sec = U16(s.hl_sec),
                         !.i = U8(s.i),
                         !.iff1 = U8(s.iff1),
                         !.iff2 = U8(s.iff2),
                         !.indexMode = s.indexMode,
                         !.interruptMode = U8(s.interruptMode),
                         !.isInOpExecution = U8(s.isInterruptBlocked),
                         !.isInterruptBlocked = U8(s.isInterruptBlocked)]
      c09 == setPairOf(setLowOf(setHighOf(c08, "ix", s.xh), "ix", s.xl), "ix",
          s.ix)
      c10 == setPairOf(setLowOf(setHighOf(c09, "iy", s.yh), "iy", s.yl), "iy",
          s.iy)
      c11 == [c10 EXCEPT !.maskableInterruptModeEntered =
                           U8(s.maskableInterruptModeEntered),
                         !.opCode = U8(s.opCode),
                         !.pc = U16(s.pc),
                         !.prefixMode = s.prefixMode,
                         !.r = U8(s.r),
                         !.sp = U16(s.sp),
                         !.stateFlags = s.stateFlags,
                         !.tacts = tactsFromHalves(s.tactsH, s.tactsL),
                         !.useGateArrayContention =
                           U8(s.useGateArrayContention)]
  IN  setPairOf(setLowOf(setHighOf(c11, "wz", s.wh), "wz", s.wl), "wz", s.wz)

(***************************************************************************)
(* Bus interface                                                           *)
(***************************************************************************)
\* an execution context: the CPU, the host memory, and the record of the
\* bus operations and of the signal services performed by the running call
Ctx(c, m) == [cpu |-> c, mem |-> m, log |-> <<>>, calls |-> <<>>]

\* Z80Cpu#readMemory: the byte the memoryReader callback returns
readMemory(x, addr) == BitAnd(HostRead(x.mem, addr), 255)

\* the record of a readMemory call
noteRead(x, addr) ==
  [x EXCEPT !.log = Append(@, [kind |-> "rd", addr |-> addr,
                               val |-> readMemory(x, addr)])]

\* Z80Cpu#writeMemory: hands addr and val to the memoryWriter callback
writeMemory(x, addr, val) ==
  [x EXCEPT !.mem = HostWrite(@, addr, val),
            !.log = Append(@, [kind |-> "wr", addr |-> addr, val |-> val])]

\* tacts += n on the CPU of a context
addTacts(x, n) == [x EXCEPT !.cpu.tacts = I64Add(@, n)]

\* the record of a signal service entered by the running call
noteCall(x, name) == [x EXCEPT !.calls = Append(@, name)]

\* refreshMemory counting R over all eight bits
refreshMemory_wrap8(x) ==
  addTacts([x EXCEPT !.cpu.r = U8(@ + 1)], 1)

\* Z80Cpu#refreshMemory
refreshMemory(x) ==
  LET r == x.cpu.r
      x1 == [x EXCEPT !.cpu.r = U8(BitOr(BitAnd(r + 1, 127), BitAnd(r, 128)))]
  IN  addTacts(x1, 1)

\* a touch that takes the bit number modulo 16
touch_mod16(status, addr) ==
  LET a == BitAnd(addr, 65535)
  IN  status \cup {<<a \div 32, a % 16>>}

\* MemoryStatusArray#touch: the set of (word, bit) positions that are set
touch(status, addr) ==
  LET a == BitAnd(addr, 65535)
  IN  status \cup {<<a \div 32, a % 32>>}

(***************************************************************************)
(* Signal services                                                         *)
(***************************************************************************)
\* leaving the halted state without stepping over the HALT opcode
leaveHalt_keepPc(x) ==
  IF BitAnd(x.cpu.stateFlags, StateFlagsHalted) # 0
  THEN [x EXCEPT !.cpu.stateFlags = BitAnd(@, StateFlagsInvHalted)]
  ELSE x

\* the common head of executeInterrupt and executeNmi: a halted CPU steps
\* over the HALT opcode and leaves the halted state
leaveHalt(x) ==
  IF BitAnd(x.cpu.stateFlags, StateFlagsHalted) # 0
  THEN [x EXCEPT !.cpu.pc = U16(@ + 1),
                 !.cpu.stateFlags = BitAnd(@, StateFlagsInvHalted)]
  ELSE x

\* the push with the two bytes of PC exchanged
pushPc_lowFirst(x) ==
  LET x1 == [x EXCEPT !.cpu.sp = U16(@ - 1)]
      x2 == addTacts(x1, 1)
      x3 == writeMemory(x2, x2.cpu.sp, BitAnd(x2.cpu.pc, 255))
      x4 == addTacts(x3, 3)
      x5 == [x4 EXCEPT !.cpu.sp = U16(@ - 1)]
      x6 == writeMemory(x5, x5.cpu.sp, x5.cpu.pc \div 256)
  IN  addTacts(x6, 3)

\* the push of PC shared by executeInterrupt and executeNmi:
\* SP--, 1 tact, write PC high, 3 tacts, SP--, write PC low, 3 tacts
pushPc(x) ==
  LET x1 == [x EXCEPT !.cpu.sp = U16(@ - 1)]
      x2 == addTacts(x1, 1)
      x3 == writeMemory(x2, x2.cpu.sp, x2.cpu.pc \div 256)
      x4 == addTacts(x3, 3)
      x5 == [x4 EXCEPT !.cpu.sp = U16(@ - 1)]
      x6 == writeMemory(x5, x5.cpu.sp, BitAnd(x5.cpu.pc, 255))
  IN  addTacts(x6, 3)

\* executeInterrupt, interrupt modes 0 and 1
interruptMode01(x) ==
  addTacts([x EXCEPT !.cpu.wz = U16(56)], 5)

\* executeInterrupt, the remaining interrupt modes (mode 2)
interruptMode2(x) ==
  LET x1 == addTacts(x, 2)
      \* (i << 8 | r) & 255 & 65280 | 255
      adr == BitOr(BitAnd(BitAnd(BitOr(x1.cpu.i * 256, x1.cpu.r), 255), 65280),
                   255)
      x2 == addTacts(x1, 5)
      l == readMemory(x2, adr)
      x3 == addTacts(noteRead(x2, adr), 3)
      h == readMemory(x3, adr + 1)
      x4 == addTacts(noteRead(x3, adr + 1), 3)
      \* (h << 8 | l) & 255
      x5 == [x4 EXCEPT !.cpu.wz = U16(BitAnd(BitOr(h * 256, l), 255))]
  IN  addTacts(x5, 6)

\* Z80Cpu#executeInterrupt
executeInterrupt(x) ==
  LET x1 == leaveHalt(noteCall(x, "executeInterrupt"))
      x2 == [x1 EXCEPT !.cpu.iff1 = 0, !.cpu.iff2 = 0]
      x3 == pushPc(x2)
      x4 == IF x3.cpu.interruptMode = 0 \/ x3.cpu.interruptMode = 1
            THEN interruptMode01(x3)
            ELSE interruptMode2(x3)
  IN  [x4 EXCEPT !.cpu.pc = U16(x4.cpu.wz)]

\* executeNmi without the copy of IFF1 into IFF2
executeNmi_keepIff2(x) ==
  LET x1 == leaveHalt(noteCall(x, "executeNmi"))
      x2 == [x1 EXCEPT !.cpu.iff1 = 0]
      x3 == pushPc(x2)
  IN  [x3 EXCEPT !.cpu.pc = U16(102)]

\* Z80Cpu#executeNmi
executeNmi(x) ==
  LET x1 == leaveHalt(noteCall(x, "executeNmi"))
      x2 == [x1 EXCEPT !.cpu.iff2 = x1.cpu.iff1, !.cpu.iff1 = 0]
      x3 == pushPc(x2)
  IN  [x3 EXCEPT !.cpu.pc = U16(102)]

\* the idle step advancing PC like an executed NOP
haltStep_stepPc(x) ==
  LET x1 == refreshMemory(addTacts(noteCall(x, "haltStep"), 3))
  IN  [x1 EXCEPT !.cpu.pc = U16(@ + 1)]

\* processCpuSignals: the idle step of a halted CPU
haltStep(x) == refreshMemory(addTacts(noteCall(x, "haltStep"), 3))

\* the acceptance test without the isInterruptBlocked condition
intAccepted_ignoreBlocked(c) ==
  /\ BitAnd(c.stateFlags, StateFlagsInt) # 0
  /\ c.iff1 # 0

\* processCpuSignals: is the pending INT accepted
intAccepted(c) ==
  /\ BitAnd(c.stateFlags, StateFlagsInt) # 0
  /\ c.isInterruptBlocked = 0
  /\ c.iff1 # 0

\* Z80Cpu#processCpuSignals: the context it leaves and the value it returns
processCpuSignals(x) ==
  IF intAccepted(x.cpu)
  THEN [x |-> executeInterrupt(x), ret |-> TRUE]
  ELSE IF BitAnd(x.cpu.stateFlags, StateFlagsHalted) # 0
  THEN [x |-> haltStep(x), ret |-> TRUE]
  ELSE IF BitAnd(x.cpu.stateFlags, StateFlagsReset) # 0
  THEN [x |-> [noteCall(x, "executeReset") EXCEPT !.cpu = executeReset(@)],
        ret |-> TRUE]
  ELSE IF BitAnd(x.cpu.stateFlags, StateFlagsNmi) # 0
  THEN [x |-> executeNmi(x), ret |-> TRUE]
  ELSE [x |-> x, ret |-> FALSE]

(***************************************************************************)
(* The CPU cycle                                                           *)
(***************************************************************************)
\* Z80Cpu#readCodeMemory: marks PC in the execution-flow bitmap, reads at PC
readCodeMemory(x) ==
  LET x1 == [x EXCEPT !.cpu.executionFlowStatus = touch(@, x.cpu.pc)]
  IN  noteCall(noteRead(x1, x1.cpu.pc), "readCodeMemory")

\* Z80Cpu#executeCpuCycle, the part after the signals
fetchOpCode(x) ==
  LET x1 == readCodeMemory(x)
      x2 == writeMemory(x1, 80, 100)
      x3 == addTacts(x2, 3)
      x4 == [x3 EXCEPT !.cpu.pc = U16(@ + 1)]
  IN  refreshMemory(x4)

\* executeCpuCycle without the return after a serviced signal
executeCpuCycle_noReturn(x) ==
  LET s == IF x.cpu.stateFlags # 0
           THEN processCpuSignals(x)
           ELSE [x |-> x, ret |-> FALSE]
  IN  fetchOpCode(s.x)

\* Z80Cpu#executeCpuCycle
executeCpuCycle(x) ==
  LET s == IF x.cpu.stateFlags # 0
           THEN processCpuSignals(x)
           ELSE [x |-> x, ret |-> FALSE]
  IN  IF s.ret THEN s.x ELSE fetchOpCode(s.x)

(***************************************************************************)
(* The CPU pool                                                            *)
(***************************************************************************)
\* the size the pool is constructed with in start:src/assembly/index
cpuPoolMaxSize == 100

\* Array#__set at a non-negative index: an index at or past the length grows
\* the array to index + 1, new elements zeroed (fill), then the store
ArraySet(arr, index, v, fill) ==
  LET grown == IF index >= Len(arr)
               THEN arr \o [k \in 1..(index + 1 - Len(arr)) |-> fill]
               ELSE arr
  IN  [grown EXCEPT ![index + 1] = v]

\* ObjectPool#reset: every slot below maxSize unused and null
ObjectPool_reset(p) ==
  LET RECURSIVE clear(_, _)
      clear(q, i) ==
        IF i < q.maxSize
        THEN clear([q EXCEPT !.used = ArraySet(@, i, FALSE, FALSE),
                             !.items = ArraySet(@, i, "null", "null")],
                   i + 1)
        ELSE q
  IN  clear(p, 0)

\* ObjectPool#constructor: two empty arrays, then reset
ObjectPool_constructor(maxSize) ==
  ObjectPool_reset([used |-> << >>, items |-> << >>, maxSize |-> maxSize])

\* a findIndex that answers the last unused slot
findIndex_last(used) ==
  LET RECURSIVE scan(_)
      scan(i) ==
        IF i >= 0
        THEN IF ~used[i + 1] THEN i ELSE scan(i - 1)
        ELSE -1
  IN  scan(Len(used) - 1)

\* Array<bool>#findIndex with the callback of ObjectPool#create (!used): the
\* first index whose element is false, else -1
findIndex(used) ==
  LET RECURSIVE scan(_)
      scan(i) ==
        IF i < Len(used)
        THEN IF ~used[i + 1] THEN i ELSE scan(i + 1)
        ELSE -1
  IN  scan(0)

\* ObjectPool#create with the pool's factory: the pool and the index returned
ObjectPool_create(p) ==
  LET index == findIndex(p.used)
  IN  IF index < 0
      THEN [pool |-> p, ret |-> -1]
      ELSE [pool |-> [p EXCEPT !.items = ArraySet(@, index, "Z80Cpu", "null"),
                               !.used = ArraySet(@, index, TRUE, FALSE)],
            ret |-> index]

\* a release that leaves the object in its slot
ObjectPool_release_keepItem(p, index) ==
  IF index < 0 \/ index >= Len(p.used)
  THEN [pool |-> p, ret |-> "abort"]
  ELSE IF ~p.used[index + 1]
  THEN [pool |-> p, ret |-> FALSE]
  ELSE [pool |-> [p EXCEPT !.used = ArraySet(@, index, FALSE, FALSE)],
        ret |-> TRUE]

\* ObjectPool#release: the pool and the value returned; Array#__get traps on
\* an index outside the array
ObjectPool_release(p, index) ==
  IF index < 0 \/ index >= Len(p.used)
  THEN [pool |-> p, ret |-> "abort"]
  ELSE IF ~p.used[index + 1]
  THEN [pool |-> p, ret |-> FALSE]
  ELSE [pool |-> [p EXCEPT !.used = ArraySet(@, index, FALSE, FALSE),
                           !.items = ArraySet(@, index, "null", "null")],
        ret |-> TRUE]

\* ObjectPool#get: the object of a slot; Array#__get traps on an index
\* outside the array
ObjectPool_get(p, index) ==
  IF index < 0 \/ index >= Len(p.items) THEN "abort" ELSE p.items[index + 1]

(***************************************************************************)
(* The Spectrum engine                                                     *)
(***************************************************************************)
\* ScreenConfigurationEx.constructor: the fourteen values copied from
\* configData and the twelve calculated from them; the configurations used
\* here are small enough for no u32 operation to wrap
ScreenConfigurationEx_constructor(configData) ==
  LET screenLines == configData.borderTopLines + configData.displayLines
                       + configData.borderBottomLines
      firstDisplayLine == configData.verticalSyncLines
                            + configData.nonVisibleBorderTopLines
                            + configData.borderTopLines
      lastDisplayLine == firstDisplayLine + configData.displayLines - 1
      borderLeftPixels == 2 * configData.borderLeftTime
      borderRightPixels == 2 * configData.borderRightTime
      displayWidth == 2 * configData.displayLineTime
      screenWidth == borderLeftPixels + displayWidth + borderRightPixels
      screenLineTime == configData.borderLeftTime
                          + configData.displayLineTime
                          + configData.borderRightTime
                          + configData.nonVisibleBorderRightTime
                          + configData.horizontalBlankingTime
      rasterLines == firstDisplayLine + configData.displayLines
                       + configData.borderBottomLines
                       + configData.nonVisibleBorderBottomLines
  IN  [interruptTact |-> configData.interruptTact,
       verticalSyncLines |-> configData.verticalSyncLines,
       nonVisibleBorderTopLines |-> configData.nonVisibleBorderTopLines,
       borderTopLines |-> configData.borderTopLines,
       borderBottomLines |-> configData.borderBottomLines,
       nonVisibleBorderBottomLines |->
         configData.nonVisibleBorderBottomLines,
       displayLines |-> configData.displayLines,
       borderLeftTime |-> configData.borderLeftTime,
       borderRightTime |-> configData.borderRightTime,
       displayLineTime |-> configData.displayLineTime,
       horizontalBlankingTime |-> configData.horizontalBlankingTime,
       nonVisibleBorderRightTime |-> configData.nonVisibleBorderRightTime,
       pixelDataPrefetchTime |-> configData.pixelDataPrefetchTime,
       attributeDataPrefetchTime |-> configData.attributeDataPrefetchTime,
       screenLines |-> screenLines,
       firstDisplayLine |-> firstDisplayLine,
       lastDisplayLine |-> lastDisplayLine,
       borderLeftPixels |-> borderLeftPixels,
       borderRightPixels |-> borderRightPixels,
       displayWidth |-> displayWidth,
       screenWidth |-> screenWidth,
       screenLineTime |-> screenLineTime,
       rasterLines |-> rasterLines,
       screenRenderingFrameTactCount |-> rasterLines * screenLineTime,
       firstDisplayPixelTact |->
         firstDisplayLine * screenLineTime + configData.borderLeftTime,
       firstScreenPixelTact |->
         (configData.verticalSyncLines + configData.nonVisibleBorderTopLines)
           * screenLineTime]

\* SpectrumEngine.constructor: ULA issue 3 and every other field with its
\* default; the screen configuration and the cycle options are unset and no
\* callback has touched a device. The Z80Cpu the constructor creates, and
\* hands out through the cpu getter, is the variable cpu. A u32 is held as
\* <<low 16 bits, high 16 bits>>, a ULong as four 16-bit limbs.
\* isMachineInstance tells whether the engine is the one the machine module
\* holds in its variable spectrum
SpectrumEngine_constructor ==
  [isMachineInstance |-> FALSE,
   ulaIssue |-> 3,
   baseClockFrequency |-> <<0, 0>>,
   clockMultiplier |-> 0,
   screenConfiguration |-> << >>,
   currentFrameTact |-> <<0, 0>>,
   frameCount |-> <<0, 0>>,
   frameBegins |-> <<0, 0, 0, 0>>,
   frameCompleted |-> FALSE,
   overflow |-> <<0, 0>>,
   contentionAccummulated |-> <<0, 0>>,
   lastExecutionStartTact |-> <<0, 0, 0, 0>>,
   lastExecutionContentionValue |-> <<0, 0>>,
   executeCycleOptions |-> [emulationMode |-> "unset"],
   executionCompletionReason |-> "unset",
   beeperSampleRate |-> 0,
   devices |-> [memory |-> "unset", port |-> "unset", screen |-> "unset",
                interrupt |-> "unset", beeper |-> "unset",
                keyboard |-> "unset"]]

\* SpectrumEngine.setup on the engine e with the CPU c: cpuConfig and scr are
\* what the callbacks getCpuConfiguration and getScreenConfiguration return;
\* beeper tells whether the callback setBeeperSampleRate is assigned: the
\* call at line 83 throws when it is not, after the fields are stored and
\* before any device is reset. The engine and the CPU it leaves, and
\* whether the call threw
setup(e, c, cpuConfig, scr, beeper) ==
  LET e1 == [e EXCEPT
               !.baseClockFrequency = cpuConfig.baseClockFrequency,
               !.clockMultiplier = cpuConfig.clockMultiplier % 256,
               !.screenConfiguration = ScreenConfigurationEx_constructor(scr),
               !.frameCount = <<0, 0>>,
               !.frameBegins = <<0, 0, 0, 0>>,
               !.frameCompleted = TRUE,
               !.overflow = <<0, 0>>,
               !.contentionAccummulated = <<0, 0>>,
               !.lastExecutionStartTact = <<0, 0, 0, 0>>,
               !.lastExecutionContentionValue = <<0, 0>>]
      c1 == [c EXCEPT !.allowExtendedInstructionSet =
                        IF cpuConfig.supportsNextOperations THEN 1 ELSE 0]
  IN  IF beeper
      THEN [engine |->
              [e1 EXCEPT !.beeperSampleRate = 24000,
                         !.devices = [memory |-> "reset", port |-> "reset",
                                      screen |-> "reset",
                                      interrupt |-> "reset",
                                      beeper |-> "reset",
                                      keyboard |-> "reset"]],
            cpu |-> c1, throws |-> FALSE]
      ELSE [engine |-> e1, cpu |-> c1, throws |-> TRUE]

\* SpectrumEngine.ulaIssue, the setter
set_ulaIssue(e, value) ==
  [e EXCEPT !.ulaIssue = IF U8(value) = 2 \/ U8(value) = 3 THEN U8(value)
                         ELSE 3]

\* SpectrumEngine.executeCycle: the statements that are not commented out
executeCycle(e, c, options) ==
  LET e1 == [e EXCEPT !.executeCycleOptions = options,
                      !.executionCompletionReason = "None"]
  IN  IF options.emulationMode # "UntilUlaFrameEnds"
      THEN [e1 EXCEPT !.lastExecutionStartTact = c.tacts,
                      !.lastExecutionContentionValue =
                         e.contentionAccummulated]
      ELSE e1

\* SpectrumEngine.serializeEngineState: the calls it makes on the writer and
\* on the nested serializers, in their order, each with its argument
serializeEngineState(e, c) ==
  << <<"serializeCpuState", c>>,
     <<"writeByte", e.ulaIssue>>,
     <<"writeUint32", e.baseClockFrequency>>,
     <<"writeByte", e.clockMultiplier>>,
     <<"serializeScreenConfiguration", e.screenConfiguration>>,
     <<"writeUint32", e.currentFrameTact>>,
     <<"writeUint32", e.frameCount>>,
     <<"writeULong", e.frameBegins>>,
     <<"writeByte", IF e.frameCompleted THEN 1 ELSE 0>>,
     <<"writeUint32", e.overflow>>,
     <<"writeUint32", e.contentionAccummulated>>,
     <<"writeULong", e.lastExecutionStartTact>>,
     <<"writeUint32", e.lastExecutionContentionValue>>,
     <<"serializeMachineState", e.devices>> >>

\* SpectrumEngine.restoreEngineState: rd holds what the calls on the reader
\* of the stream return, in their order: the CPU restoreCpuState leaves, the
\* bytes, u32s and ULongs read, and the ScreenConfiguration
\* restoreScreenConfiguration fills; restoreMachineState then sets the
\* devices. The engine and the CPU it leaves
restoreEngineState(e, rd) ==
  [engine |->
     [e EXCEPT !.ulaIssue = rd.ulaIssue,
               !.baseClockFrequency = rd.baseClockFrequency,
               !.clockMultiplier = rd.clockMultiplier,
               !.screenConfiguration =
                  ScreenConfigurationEx_constructor(rd.sc),
               !.currentFrameTact = rd.currentFrameTact,
               !.frameCount = rd.frameCount,
               !.frameBegins = rd.frameBegins,
               !.frameCompleted = rd.frameCompleted # 0,
               !.overflow = rd.overflow,
               !.contentionAccummulated = rd.contentionAccummulated,
               !.lastExecutionStartTact = rd.lastExecutionStartTact,
               !.lastExecutionContentionValue =
                  rd.lastExecutionContentionValue,
               !.devices = [memory |-> "restored", port |-> "restored",
                            screen |-> "restored", interrupt |-> "restored",
                            beeper |-> "restored", keyboard |-> "restored"]],
   cpu |-> rd.cpu]

(***************************************************************************)
(* The host driving one CPU: signals and cycles                            *)
(***************************************************************************)
\* tacts values: 0, 2^32 - 4 and 2^32 + 9
TactsValues == {I64Zero, <<65532, 65535, 0, 0>>, <<9, 0, 1, 0>>}

\* PC and SP the host sets up: a stack that wraps below 0, a PC that wraps
PcSpValues == {<<4660, 1>>, <<65535, 32768>>}

\* I, R and the decode state (prefixMode, indexMode, isInOpExecution) the
\* host sets up
IrDecodeValues == {<<0, 127, 0>>, <<18, 255, 1>>}

\* states the host sets up through the exported Z80Cpu#set:* accessors
SignalStates ==
  { [Z80CpuConstructor(0) EXCEPT
       !.stateFlags = f, !.iff1 = e1, !.iff2 = e2,
       !.isInterruptBlocked = b, !.interruptMode = im,
       !.pc = p[1], !.sp = p[2], !.i = v[1], !.r = v[2], !.tacts = t,
       !.prefixMode = 2 * v[3], !.indexMode = v[3],
       !.isInOpExecution = v[3]] :
     f \in 0..15, e1 \in 0..1, e2 \in 0..1, b \in 0..1, im \in 0..2,
     p \in PcSpValues, v \in IrDecodeValues, t \in TactsValues }

\* what the last host call was, the CPU and memory it started from, and
\* the services and bus operations it performed
Done(op, args, x) ==
  [op |-> op, args |-> args, pre |-> cpu, premem |-> mem,
   calls |-> x.calls, log |-> x.log]

Init ==
  /\ cpu \in SignalStates
  /\ mem = << >>
  /\ last = Done("init", <<>>, Ctx(cpu, mem))
  /\ steps = 0
  /\ cpuPool = ObjectPool_constructor(cpuPoolMaxSize)
  /\ engine = SpectrumEngine_constructor

\* the host calls Z80Cpu#executeCpuCycle
ExecuteCpuCycle ==
  /\ steps < MaxSteps
  /\ LET x == executeCpuCycle(Ctx(cpu, mem))
     IN  /\ cpu' = x.cpu
         /\ mem' = x.mem
         /\ last' = Done("executeCpuCycle", <<>>, x)
  /\ steps' = steps + 1
  /\ UNCHANGED <<cpuPool, engine>>

\* the host calls Z80Cpu#reset
Reset ==
  /\ steps < MaxSteps
  /\ cpu' = executeReset(cpu)
  /\ last' = Done("reset", <<>>, Ctx(cpu, mem))
  /\ steps' = steps + 1
  /\ UNCHANGED <<cpuPool, engine>>
  /\ UNCHANGED mem

\* the host takes a snapshot and applies it again:
\* Z80Cpu#updateCpuState(Z80Cpu#getCpuState())
RoundTrip ==
  /\ steps < MaxSteps
  /\ cpu' = updateCpuState(cpu, getCpuState(cpu))
  /\ last' = Done("roundTrip", <<>>, Ctx(cpu, mem))
  /\ steps' = steps + 1
  /\ UNCHANGED <<cpuPool, engine>>
  /\ UNCHANGED mem

\* The calls below are explored as the only call of a run: the host makes
\* one of them on the state it has set up and the run ends.

\* the host calls Z80Cpu#delay: tacts + cycles (cycles sign-extended to 64
\* bits; the host passes counts that are not negative)
Delay ==
  /\ steps = 0
  /\ \E cycles \in {5, 65535} :
       /\ cpu' = [cpu EXCEPT !.tacts = I64Add(@, cycles)]
       /\ last' = Done("delay", <<cycles>>, Ctx(cpu, mem))
  /\ steps' = MaxSteps
  /\ UNCHANGED <<mem, cpuPool, engine>>

\* the host calls Z80Cpu#writeMemory: the memoryWriter callback gets addr
\* and val
WriteMemory ==
  /\ steps = 0
  /\ \E addr \in {102, 16384}, val \in {90} :
       LET x == writeMemory(Ctx(cpu, mem), addr, val)
       IN  /\ mem' = x.mem
           /\ last' = Done("writeMemory", <<addr, val>>, x)
  /\ steps' = MaxSteps
  /\ UNCHANGED <<cpu, cpuPool, engine>>

\* the host calls Z80Cpu#readCodeMemory: PC is marked in the execution-flow
\* bitmap and read
ReadCodeMemory ==
  /\ steps = 0
  /\ LET x == readCodeMemory(Ctx(cpu, mem))
     IN  /\ cpu' = x.cpu
         /\ last' = Done("readCodeMemory", <<readMemory(x, cpu.pc)>>, x)
  /\ steps' = MaxSteps
  /\ UNCHANGED <<mem, cpuPool, engine>>

\* the host calls Z80Cpu#longOp: the loop stores every i below 100000000 in
\* AF with a 16-bit store, so the last one stays
LongOp ==
  /\ steps = 0
  /\ cpu' = [cpu EXCEPT !.af = U16(100000000 - 1)]
  /\ last' = Done("longOp", << >>, Ctx(cpu, mem))
  /\ steps' = MaxSteps
  /\ UNCHANGED <<mem, cpuPool, engine>>

\* the host calls the setter of a field: Z80Cpu#set:tacts stores 64 bits,
\* set:stateFlags, set:prefixMode and set:indexMode store 32 bits, the other
\* setters store the low byte
SetField ==
  /\ steps = 0
  /\ \E n \in {"tacts", "stateFlags", "useGateArrayContention", "iff1",
               "iff2", "interruptMode", "isInterruptBlocked",
               "isInOpExecution", "prefixMode", "indexMode",
               "maskableInterruptModeEntered", "opCode",
               "allowExtendedInstructionSet"} :
       \E v \in (CASE n = "tacts" -> {<<5, 0, 0, 0>>}
                   [] n = "stateFlags" -> {StateFlagsNone, StateFlagsNmi}
                   [] n \in {"interruptMode", "prefixMode", "indexMode"}
                        -> {0, 2}
                   [] n = "opCode" -> {0, 118}
                   [] OTHER -> {0, 1}) :
         /\ cpu' = [cpu EXCEPT
                      ![n] = IF n \in {"tacts", "stateFlags", "prefixMode",
                                       "indexMode"}
                             THEN v ELSE U8(v)]
         /\ last' = Done("setField", <<n, v>>, Ctx(cpu, mem))
  /\ steps' = MaxSteps
  /\ UNCHANGED <<mem, cpuPool, engine>>

Next ==
  \/ ExecuteCpuCycle
  \/ Reset
  \/ RoundTrip
  \/ Delay
  \/ WriteMemory
  \/ ReadCodeMemory
  \/ LongOp
  \/ SetField

Spec == Init /\ [][Next]_vars

(***************************************************************************)
(* The host writing registers                                              *)
(***************************************************************************)
\* byte values the host writes to register halves
HalfValues == {0, 90, 255}

\* word values the host writes to register pairs
PairValues == {0, 4660, 65535}

InitRegs ==
  /\ cpu = Z80CpuConstructor(0)
  /\ mem = << >>
  /\ last = Done("init", <<>>, Ctx(cpu, mem))
  /\ steps = 0
  /\ cpuPool = ObjectPool_constructor(cpuPoolMaxSize)
  /\ engine = SpectrumEngine_constructor

\* the host calls the setter of a high half: Z80Cpu#set:a, set:b, ...
WriteHigh ==
  /\ steps < MaxSteps
  /\ \E n \in PairNames, v \in HalfValues :
       /\ cpu' = setHighOf(cpu, n, v)
       /\ last' = Done("setHigh", <<n, v>>, Ctx(cpu, mem))
  /\ steps' = steps + 1
  /\ UNCHANGED <<cpuPool, engine>>
  /\ UNCHANGED mem

\* the host calls the setter of a low half: Z80Cpu#set:f, set:c, ...
WriteLow ==
  /\ steps < MaxSteps
  /\ \E n \in PairNames, v \in HalfValues :
       /\ cpu' = setLowOf(cpu, n, v)
       /\ last' = Done("setLow", <<n, v>>, Ctx(cpu, mem))
  /\ steps' = steps + 1
  /\ UNCHANGED <<cpuPool, engine>>
  /\ UNCHANGED mem

\* the host calls the setter of a pair: Z80Cpu#set:af, set:bc, ...
WritePair ==
  /\ steps < MaxSteps
  /\ \E n \in PairNames, v \in PairValues :
       /\ cpu' = setPairOf(cpu, n, v)
       /\ last' = Done("setPair", <<n, v>>, Ctx(cpu, mem))
  /\ steps' = steps + 1
  /\ UNCHANGED <<cpuPool, engine>>
  /\ UNCHANGED mem

\* register codes the host passes: the seven registers, 6, and codes above 7
RegCodes == (0..9) \cup {255}

\* the host calls Z80Cpu#getReg8; the second argument records the result
GetReg8 ==
  /\ steps < MaxSteps
  /\ \E code \in RegCodes :
       last' = Done("getReg8", <<code, getReg8(cpu, code)>>, Ctx(cpu, mem))
  /\ steps' = steps + 1
  /\ UNCHANGED <<cpuPool, engine>>
  /\ UNCHANGED <<cpu, mem>>

\* the host calls Z80Cpu#setReg8
SetReg8 ==
  /\ steps < MaxSteps
  /\ \E code \in RegCodes, v \in HalfValues :
       /\ cpu' = setReg8(cpu, code, v)
       /\ last' = Done("setReg8", <<code, v>>, Ctx(cpu, mem))
  /\ steps' = steps + 1
  /\ UNCHANGED <<cpuPool, engine>>
  /\ UNCHANGED mem

\* the host calls Z80Cpu#turnOn
TurnOn ==
  /\ steps < MaxSteps
  /\ cpu' = turnOn(cpu)
  /\ last' = Done("turnOn", <<>>, Ctx(cpu, mem))
  /\ steps' = steps + 1
  /\ UNCHANGED <<cpuPool, engine>>
  /\ UNCHANGED mem

\* pair codes the host passes: BC, DE, HL, SP and a code above 3
Reg16Codes == 0..4

\* the host calls Z80Cpu#getReg16; the second argument records the result
GetReg16 ==
  /\ steps < MaxSteps
  /\ \E code \in Reg16Codes :
       last' = Done("getReg16", <<code, getReg16(cpu, code)>>, Ctx(cpu, mem))
  /\ steps' = steps + 1
  /\ UNCHANGED <<cpuPool, engine>>
  /\ UNCHANGED <<cpu, mem>>

\* the host calls Z80Cpu#setReg16
SetReg16 ==
  /\ steps < MaxSteps
  /\ \E code \in Reg16Codes, v \in PairValues :
       /\ cpu' = setReg16(cpu, code, v)
       /\ last' = Done("setReg16", <<code, v>>, Ctx(cpu, mem))
  /\ steps' = steps + 1
  /\ UNCHANGED <<cpuPool, engine>>
  /\ UNCHANGED mem

\* the host calls the setter of an alternate pair, of PC or SP (16-bit
\* stores) or of I or R (8-bit stores): Z80Cpu#set:_af_, ..., set:sp
WriteRegister ==
  /\ steps < MaxSteps
  /\ \E n \in {"af_sec", "bc_sec", "de_sec", "hl_sec", "i", "r", "pc", "sp"},
        v \in PairValues :
       /\ cpu' = [cpu EXCEPT ![n] = IF n \in {"i", "r"} THEN U8(v)
                                    ELSE U16(v)]
       /\ last' = Done("setRegister", <<n, v>>, Ctx(cpu, mem))
  /\ steps' = steps + 1
  /\ UNCHANGED <<mem, cpuPool, engine>>

NextRegs ==
  \/ WriteHigh \/ WriteLow \/ WritePair \/ GetReg8 \/ SetReg8 \/ TurnOn
  \/ GetReg16 \/ SetReg16 \/ WriteRegister

SpecRegs == InitRegs /\ [][NextRegs]_vars

(***************************************************************************)
(* Operation tables and their dispatchers                                  *)
(***************************************************************************)
\* the operation tables: entry k + 1 is the operation of opcode k
standardOperations == <<"null", "LdBcNN">>
extendedOperations == <<"null", "LdBcNN">>
bitOperations == <<"null", "LdBcNN">>
indexedBitOperations == <<"null", "LdBcNNIdx">>

\* LdBcNN: the operation body is empty
LdBcNN(x) == noteCall(x, "LdBcNN")

\* LdBcNNIdx: the operation body is empty
LdBcNNIdx(x, addr) == noteCall(x, "LdBcNNIdx")

\* Array#__get on an operation table: the index is checked against the
\* length of the table, and an index out of range aborts the call
inRange(table, index) == index < Len(table)

\* call_indirect on the entry of a table, skipped for a null entry
callOperation(table, index, x, addr) ==
  LET entry == table[index + 1]
  IN  CASE entry = "LdBcNN" -> LdBcNN(x)
        [] entry = "LdBcNNIdx" -> LdBcNNIdx(x, addr)
        [] OTHER -> x

\* Z80Cpu#processStandardOrIndexedOperations: both index modes look the
\* opcode up in standardOperations
processStandardOrIndexedOperations(x) ==
  IF ~inRange(standardOperations, x.cpu.opCode)
  THEN noteCall(x, "abort")
  ELSE callOperation(standardOperations, x.cpu.opCode, x, 0)

\* Z80Cpu#processEDOperations
processEDOperations(x) ==
  IF ~inRange(extendedOperations, x.cpu.opCode)
  THEN noteCall(x, "abort")
  ELSE callOperation(extendedOperations, x.cpu.opCode, x, 0)

\* the opcode byte as a signed displacement: (opCode << 24) >> 24
signedByte(v) == IF v >= 128 THEN v - 256 ELSE v

\* Z80Cpu#processCBPrefixedOperations, index mode IX or IY: WZ = index
\* register + displacement, a read at PC - 1 unless the gate array contends,
\* 1 tact, the opcode read at PC, 3 tacts, PC + 1, then the indexed table
processIndexedBitOperations(x) ==
  LET idx == IF x.cpu.indexMode = OpIndexModeIX THEN getPairOf(x.cpu, "ix")
             ELSE getPairOf(x.cpu, "iy")
      x1 == [x EXCEPT !.cpu = setPairOf(@, "wz",
          U16(idx + signedByte(x.cpu.opCode)
                                              + 65536))]
      x2 == IF x1.cpu.useGateArrayContention = 0
            THEN noteRead(x1, U16(x1.cpu.pc + 65535))
            ELSE x1
      x3 == addTacts(x2, 1)
      x4 == readCodeMemory(x3)
      x5 == [x4 EXCEPT !.cpu.opCode = U8(readMemory(x3, x3.cpu.pc))]
      x6 == addTacts(x5, 3)
      x7 == [x6 EXCEPT !.cpu.pc = U16(@ + 1)]
  IN  IF ~inRange(indexedBitOperations, x7.cpu.opCode)
      THEN noteCall(x7, "abort")
      ELSE callOperation(indexedBitOperations, x7.cpu.opCode, x7,
                         getPairOf(x7.cpu, "wz"))

\* Z80Cpu#processCBPrefixedOperations
processCBPrefixedOperations(x) ==
  IF x.cpu.indexMode = OpIndexModeNone
  THEN IF ~inRange(bitOperations, x.cpu.opCode)
       THEN noteCall(x, "abort")
       ELSE callOperation(bitOperations, x.cpu.opCode, x, 0)
  ELSE processIndexedBitOperations(x)

(***************************************************************************)
(* The host running code: programs, registers, the decode state            *)
(***************************************************************************)
\* the address HL points to in the programs
DataAddr == 4096

\* the host memory of a test: initCode([b1, b2]), then m[DataAddr] = d
CodeImage(b1, b2, d) == HostWrite(initCode(<<b1, b2>>), DataAddr, d)

\* a CPU after construction whose registers and decode state the host has
\* set through the pair setters and the exported fields
CodeState(g, v) ==
  [setPairOf(setPairOf(setPairOf(set_af(Z80CpuConstructor(0), g[1]), "bc",
      g[2]), "de", g[3]), "hl",
          DataAddr)
     EXCEPT !.prefixMode = v[1], !.indexMode = v[2], !.opCode = v[3]]

\* the states a test sets up. g: AF, BC, DE and the data byte at (HL);
\* v: prefixMode, indexMode and opCode; b1: the first byte of the program,
\* LD r,r' and HALT (0x40-0x7F), NOP, and the prefixes CB, DD, ED, FD;
\* b2: the byte after a CB prefix, RES n,r (0x80-0xBF), else 0
InitOps ==
  /\ \E g \in {<<65281, 4863, 13397, 255>>, <<255, 43590, 65535, 70>>},
        v \in {<<0, 0, 255>>, <<1, 0, 1>>, <<2, 1, 1>>, <<2, 0, 134>>,
               <<0, 2, 64>>, <<0, 0, 0>>} :
       /\ cpu = CodeState(g, v)
       /\ \E b1 \in (64..127) \cup {0, 203, 221, 237, 253} :
            \E b2 \in (IF b1 = 203 THEN 128..191 ELSE {0}) :
              mem = CodeImage(b1, b2, g[4])
  /\ last = Done("init", <<>>, Ctx(cpu, mem))
  /\ steps = 0
  /\ cpuPool = ObjectPool_constructor(cpuPoolMaxSize)
  /\ engine = SpectrumEngine_constructor

\* the host calls Z80Cpu#processStandardOrIndexedOperations
ProcessStandardOrIndexedOperations ==
  /\ steps < MaxSteps
  /\ LET x == processStandardOrIndexedOperations(Ctx(cpu, mem))
     IN  /\ cpu' = x.cpu
         /\ mem' = x.mem
         /\ last' = Done("processStandardOrIndexedOperations", <<>>, x)
  /\ steps' = steps + 1
  /\ UNCHANGED <<cpuPool, engine>>

\* the host calls Z80Cpu#processEDOperations
ProcessEDOperations ==
  /\ steps < MaxSteps
  /\ LET x == processEDOperations(Ctx(cpu, mem))
     IN  /\ cpu' = x.cpu
         /\ mem' = x.mem
         /\ last' = Done("processEDOperations", <<>>, x)
  /\ steps' = steps + 1
  /\ UNCHANGED <<cpuPool, engine>>

\* the host calls Z80Cpu#processCBPrefixedOperations
ProcessCBPrefixedOperations ==
  /\ steps < MaxSteps
  /\ LET x == processCBPrefixedOperations(Ctx(cpu, mem))
     IN  /\ cpu' = x.cpu
         /\ mem' = x.mem
         /\ last' = Done("processCBPrefixedOperations", <<>>, x)
  /\ steps' = steps + 1
  /\ UNCHANGED <<cpuPool, engine>>

NextOps ==
  \/ ExecuteCpuCycle
  \/ ProcessStandardOrIndexedOperations
  \/ ProcessEDOperations
  \/ ProcessCBPrefixedOperations

SpecOps == InitOps /\ [][NextOps]_vars

(***************************************************************************)
(* The step-over classifier                                                *)
(***************************************************************************)
\* Z80Cpu#getCallInstructionLength: the context it leaves (the reads it
\* made) and the length it returns
getCallInstructionLength(x) ==
  LET opCode == readMemory(x, x.cpu.pc)
      x1 == noteRead(x, x.cpu.pc)
      next == BitAnd(x.cpu.pc + 1, 65535)
      opCode2 == readMemory(x1, next)
  IN  IF opCode = 205 THEN [x |-> x1, ret |-> 3]
      ELSE IF BitAnd(opCode, 199) = 196 THEN [x |-> x1, ret |-> 3]
      ELSE IF BitAnd(opCode, 199) = 199 THEN [x |-> x1, ret |-> 1]
      ELSE IF opCode = 118 THEN [x |-> x1, ret |-> 1]
      ELSE IF opCode # 237 THEN [x |-> x1, ret |-> 0]
      ELSE [x |-> noteRead(x1, next),
            ret |-> IF BitAnd(opCode2, 180) = 176 THEN 2 ELSE 0]

\* the host memory of a test: initCode([]), then m[pc] = b1 and
\* m[(pc + 1) & 0xffff] = b2
CallImage(pc, b1, b2) ==
  HostWrite(HostWrite(initCode(<< >>), pc, b1), (pc + 1) % 65536, b2)

\* the states a test sets up. pc: the address the classified instruction
\* starts at, the second wraps; b1: its first byte; b2: the byte after the
\* first, every byte after ED, else 0
InitCalls ==
  /\ \E pc \in {0, 65535}, b1 \in 0..255 :
     \E b2 \in (IF b1 = 237 THEN 0..255 ELSE {0}) :
       /\ cpu = [Z80CpuConstructor(0) EXCEPT !.pc = pc]
       /\ mem = CallImage(pc, b1, b2)
  /\ last = Done("init", <<>>, Ctx(cpu, mem))
  /\ steps = 0
  /\ cpuPool = ObjectPool_constructor(cpuPoolMaxSize)
  /\ engine = SpectrumEngine_constructor

\* the host calls Z80Cpu#getCallInstructionLength; the argument records the
\* result
GetCallInstructionLength ==
  /\ steps < MaxSteps
  /\ LET g == getCallInstructionLength(Ctx(cpu, mem))
     IN  /\ cpu' = g.x.cpu
         /\ mem' = g.x.mem
         /\ last' = Done("getCallInstructionLength", <<g.ret>>, g.x)
  /\ steps' = steps + 1
  /\ UNCHANGED <<cpuPool, engine>>

NextCalls == GetCallInstructionLength

SpecCalls == InitCalls /\ [][NextCalls]_vars

(***************************************************************************)
(* The ALU helpers and their flag tables                                   *)
(***************************************************************************)
\* FlagsSetMask.S
FlagS == 128

\* FlagsSetMask.Z
FlagZ == 64

\* FlagsSetMask.R5
FlagR5 == 32

\* FlagsSetMask.H
FlagH == 16

\* FlagsSetMask.R3
FlagR3 == 8

\* FlagsSetMask.PV
FlagPV == 4

\* FlagsSetMask.N
FlagN == 2

\* FlagsSetMask.C
FlagC == 1

\* the low 16 bits of a 32-bit value in -65536..65535
Low16(v) == (v + 65536) % 65536

\* i32.xor on non-negative operands
RECURSIVE BitXor(_, _)
BitXor(a, b) ==
  IF a = 0 THEN b
  ELSE IF b = 0 THEN a
  ELSE ((a + b) % 2) + 2 * BitXor(a \div 2, b \div 2)

\* the number of 1 bits of a byte
RECURSIVE BitCount(_)
BitCount(b) == IF b = 0 THEN 0 ELSE (b % 2) + BitCount(b \div 2)

\* flags | mask when cond holds
FlagIf(flags, cond, mask) == IF cond THEN BitOr(flags, mask) ELSE flags

\* adcFlags[index], as the start function fills it for
\* index = C * 65536 + X * 256 + Y
adcFlags(index) ==
  LET C == index \div 65536
      X == (index \div 256) % 256
      Y == index % 256
      res == (X + Y + C) % 65536
      signed == signedByte((X + Y) % 256) + C
      f0 == FlagIf(0, res % 256 = 0, FlagZ)
      f1 == BitOr(f0, BitAnd(res, BitOr(BitOr(FlagS, FlagR5), FlagR3)))
      f2 == FlagIf(f1, res >= 256, FlagC)
      f3 == FlagIf(f2, BitAnd((X % 16) + (Y % 16) + C, 16) # 0, FlagH)
      f4 == FlagIf(f3, signed >= 128 \/ signed <= -129, FlagPV)
  IN  U8(f4)

\* sbcFlags[index], as the start function fills it for
\* index = C * 65536 + X * 256 + Y
sbcFlags(index) ==
  LET C == index \div 65536
      X == (index \div 256) % 256
      Y == index % 256
      res == X - Y - C
      signed == signedByte(Low16(X - Y) % 256) - C
      f0 == BitAnd(Low16(res), BitOr(BitOr(FlagS, FlagR5), FlagR3))
      f1 == FlagIf(f0, Low16(res) % 256 = 0, FlagZ)
      f2 == FlagIf(f1, res < 0, FlagC)
      f3 == FlagIf(f2, signed >= 128 \/ signed < -128, FlagPV)
      f4 == FlagIf(f3,
                   BitAnd(Low16((X % 16) - (Low16(res) % 16) - C), 16) # 0,
                   FlagH)
      f5 == BitOr(f4, FlagN)
  IN  U8(f5)

\* aluLogOpFlags[b], as the start function fills it
aluLogOpFlags(b) ==
  LET f0 == BitOr(BitAnd(b, BitOr(BitOr(FlagS, FlagR5), FlagR3)),
                  IF BitCount(b) % 2 = 0 THEN FlagPV ELSE 0)
  IN  U8(FlagIf(f0, b = 0, FlagZ))

\* a variant of AluADC that drops the carry input
AluADC_noCarryIn(c, arg, cf) ==
  LET a == get_a(c)
      result == BitAnd(a + arg, 255)
      signed == signedByte((a + arg) % 256)
      lNibble == BitAnd(BitAnd(BitAnd(a, 15) + BitAnd(arg, 15), 255), 16)
      f0 == BitAnd(BitAnd(result, BitOr(BitOr(FlagS, FlagR5), FlagR3)),
                   255)
      f1 == FlagIf(f0, BitAnd(result, 255) = 0, FlagZ)
      f2 == FlagIf(f1, result >= 256, FlagC)
      f3 == FlagIf(f2, lNibble # 0, FlagH)
      f4 == FlagIf(f3, signed >= 128 \/ signed <= -129, FlagPV)
  IN  set_af(c, BitOr(result * 256, BitAnd(f4, 255)))

\* AluADC
AluADC(c, arg, cf) ==
  LET a == get_a(c)
      carry == IF cf # 0 THEN 1 ELSE 0
      result == BitAnd(a + arg, 255) + carry
      signed == signedByte((a + arg) % 256) + carry
      lNibble ==
        BitAnd(BitAnd(BitAnd(a, 15) + BitAnd(arg, 15), 255) + carry, 16)
      f0 == BitAnd(BitAnd(result, BitOr(BitOr(FlagS, FlagR5), FlagR3)),
                   255)
      f1 == FlagIf(f0, BitAnd(result, 255) = 0, FlagZ)
      f2 == FlagIf(f1, result >= 256, FlagC)
      f3 == FlagIf(f2, lNibble # 0, FlagH)
      f4 == FlagIf(f3, signed >= 128 \/ signed <= -129, FlagPV)
  IN  set_af(c, BitOr(result * 256, BitAnd(f4, 255)))

\* AluADD
AluADD(c, arg, cf) == AluADC(c, arg, 0)

\* AluSBC
AluSBC(c, arg, cf) ==
  LET a == get_a(c)
      carry == IF cf # 0 THEN 1 ELSE 0
      result == BitAnd(Low16(a - arg), 255) - carry
      signed == signedByte(BitAnd(Low16(a - arg), 255)) - carry
      lNibble ==
        BitAnd(Low16(BitAnd(Low16(BitAnd(a, 15) - BitAnd(arg, 15)), 255)
                     - carry), 16)
      f0 == BitAnd(BitAnd(Low16(result),
                          BitOr(BitOr(FlagS, FlagR5), FlagR3)), 15)
      f1 == BitOr(f0, FlagN)
      f2 == FlagIf(f1, BitAnd(Low16(result), 255) = 0, FlagZ)
      f3 == FlagIf(f2, result < 0, FlagC)
      f4 == FlagIf(f3, lNibble # 0, FlagH)
      f5 == FlagIf(f4, signed >= 128 \/ signed <= -129, FlagPV)
  IN  set_af(c, BitOr((Low16(result) % 256) * 256, BitAnd(f5, 255)))

\* AluSUB
AluSUB(c, arg, cf) == AluSBC(c, arg, 0)

\* AluAND
AluAND(c, arg, cf) ==
  LET c1 == set_a(c, BitAnd(get_a(c), arg))
  IN  set_f(c1, BitOr(aluLogOpFlags(get_a(c1)), FlagH))

\* AluXOR
AluXOR(c, arg, cf) ==
  LET c1 == set_a(c, BitXor(get_a(c), arg))
  IN  set_f(c1, aluLogOpFlags(get_a(c1)))

\* AluOR
AluOR(c, arg, cf) ==
  LET c1 == set_a(c, BitOr(get_a(c), arg))
  IN  set_f(c1, aluLogOpFlags(get_a(c1)))

\* AluCP
AluCP(c, arg, cf) ==
  LET a == get_a(c)
      d == BitAnd(Low16(a - arg), 255)
      signed == signedByte(d)
      lNibble == BitAnd(Low16(BitAnd(a, 15) - BitAnd(arg, 15)), 16)
      f0 == BitAnd(d, BitOr(BitOr(FlagS, FlagR5), FlagR3))
      f1 == BitOr(f0, FlagN)
      f2 == FlagIf(f1, d = 0, FlagZ)
      f3 == FlagIf(f2, BitAnd(d, 65536) # 0, FlagC)
      f4 == FlagIf(f3, lNibble # 0, FlagH)
      f5 == FlagIf(f4, signed >= 128 \/ signed <= -129, FlagPV)
  IN  set_f(c, f5)

\* aluAlgorithms: the helper behind each table entry
aluAlgorithm(name, c, arg, cf) ==
  CASE name = "AluADD" -> AluADD(c, arg, cf)
    [] name = "AluADC" -> AluADC(c, arg, cf)
    [] name = "AluSUB" -> AluSUB(c, arg, cf)
    [] name = "AluSBC" -> AluSBC(c, arg, cf)
    [] name = "AluAND" -> AluAND(c, arg, cf)
    [] name = "AluXOR" -> AluXOR(c, arg, cf)
    [] name = "AluOR" -> AluOR(c, arg, cf)
    [] name = "AluCP" -> AluCP(c, arg, cf)

\* how many helper calls a run makes
MaxAluSteps == 1

\* accumulator and operand bytes the helpers are called with
AluValues == {0, 1, 15, 16, 127, 128, 240, 255}

\* a constructed CPU whose AF the host has set
InitAlu ==
  /\ \E a \in AluValues, f \in {0, 255} :
       cpu = set_af(Z80CpuConstructor(0), a * 256 + f)
  /\ mem = << >>
  /\ last = Done("init", <<>>, Ctx(cpu, mem))
  /\ steps = 0
  /\ cpuPool = ObjectPool_constructor(cpuPoolMaxSize)
  /\ engine = SpectrumEngine_constructor

\* one call of a helper of the algorithm table; the arguments are recorded
CallAlu(name, arg, cf) ==
  /\ steps < MaxAluSteps
  /\ cpu' = aluAlgorithm(name, cpu, arg, cf)
  /\ last' = Done(name, <<arg, cf>>, Ctx(cpu, mem))
  /\ steps' = steps + 1
  /\ UNCHANGED <<cpuPool, engine>>
  /\ UNCHANGED mem

\* aluAlgorithms[0]
CallAluADD == \E arg \in AluValues, cf \in 0..1 : CallAlu("AluADD", arg, cf)

\* aluAlgorithms[1]
CallAluADC == \E arg \in AluValues, cf \in 0..1 : CallAlu("AluADC", arg, cf)

\* aluAlgorithms[2]
CallAluSUB == \E arg \in AluValues, cf \in 0..1 : CallAlu("AluSUB", arg, cf)

\* aluAlgorithms[3]
CallAluSBC == \E arg \in AluValues, cf \in 0..1 : CallAlu("AluSBC", arg, cf)

\* aluAlgorithms[4]
CallAluAND == \E arg \in AluValues : CallAlu("AluAND", arg, 0)

\* aluAlgorithms[5]
CallAluXOR == \E arg \in AluValues : CallAlu("AluXOR", arg, 0)

\* aluAlgorithms[6]
CallAluOR == \E arg \in AluValues : CallAlu("AluOR", arg, 0)

\* aluAlgorithms[7]
CallAluCP == \E arg \in AluValues : CallAlu("AluCP", arg, 0)

NextAlu ==
  \/ CallAluADD
  \/ CallAluADC
  \/ CallAluSUB
  \/ CallAluSBC
  \/ CallAluAND
  \/ CallAluXOR
  \/ CallAluOR
  \/ CallAluCP

SpecAlu == InitAlu /\ [][NextAlu]_vars

(***************************************************************************)
(* The host using the CPU pool                                             *)
(***************************************************************************)
\* slot indexes the host passes to releaseCpu and getCpu: both ends, an
\* inner slot, and the first index past the pool
PoolIndexes == {0, 1, 50, 99, 100}

\* the module after its start function: the pool of cpuPoolMaxSize free slots
InitPool ==
  /\ cpu = Z80CpuConstructor(0)
  /\ mem = << >>
  /\ last = Done("init", <<>>, Ctx(cpu, mem))
  /\ steps = 0
  /\ cpuPool = ObjectPool_constructor(cpuPoolMaxSize)
  /\ engine = SpectrumEngine_constructor

\* the host calls createCpu; the argument records the index returned
CreateCpu ==
  /\ LET c == ObjectPool_create(cpuPool)
     IN  /\ cpuPool' = c.pool
         /\ last' = Done("createCpu", <<c.ret>>, Ctx(cpu, mem))
  /\ UNCHANGED <<cpu, mem, steps, engine>>

\* the host calls releaseCpu; the second argument records the result
ReleaseCpu ==
  /\ \E index \in PoolIndexes :
       LET c == ObjectPool_release(cpuPool, index)
       IN  /\ cpuPool' = c.pool
           /\ last' = Done("releaseCpu", <<index, c.ret>>, Ctx(cpu, mem))
  /\ UNCHANGED <<cpu, mem, steps, engine>>

\* the host calls getCpu; the second argument records the result
GetCpu ==
  /\ \E index \in PoolIndexes :
       last' = Done("getCpu", <<index, ObjectPool_get(cpuPool, index)>>,
                    Ctx(cpu, mem))
  /\ UNCHANGED <<cpu, mem, steps, cpuPool, engine>>

\* the host calls resetCpuPool
ResetCpuPool ==
  /\ cpuPool' = ObjectPool_reset(cpuPool)
  /\ last' = Done("resetCpuPool", <<>>, Ctx(cpu, mem))
  /\ UNCHANGED <<cpu, mem, steps, engine>>

NextPool == CreateCpu \/ ReleaseCpu \/ GetCpu \/ ResetCpuPool

SpecPool == InitPool /\ [][NextPool]_vars

(***************************************************************************)
(* The INC, DEC and DAA tables and the host reading table entries          *)
(***************************************************************************)
\* an incOpFlags entry without the overflow flag
incOpFlags_noOverflow(b) ==
  LET newVal == b + 1
  IN  U8(BitOr(BitOr(BitOr(BitOr(
        BitOr(BitAnd(BitAnd(newVal, 255), FlagR3),
              BitAnd(BitAnd(newVal, 255), FlagR5)),
        IF BitAnd(newVal, 128) # 0 THEN FlagS ELSE 0),
        IF BitAnd(newVal, 255) = 0 THEN FlagZ ELSE 0),
        IF BitAnd(b, 15) = 15 THEN FlagH ELSE 0),
        0))

\* incOpFlags[b], as the start function fills it
incOpFlags(b) ==
  LET newVal == b + 1
  IN  U8(BitOr(BitOr(BitOr(BitOr(
        BitOr(BitAnd(BitAnd(newVal, 255), FlagR3),
              BitAnd(BitAnd(newVal, 255), FlagR5)),
        IF BitAnd(newVal, 128) # 0 THEN FlagS ELSE 0),
        IF BitAnd(newVal, 255) = 0 THEN FlagZ ELSE 0),
        IF BitAnd(b, 15) = 15 THEN FlagH ELSE 0),
        IF BitAnd(b, 255) = 127 THEN FlagPV ELSE 0))

\* decOpFlags[b], as the start function fills it; b - 1 is -1 for b = 0
decOpFlags(b) ==
  LET newVal == Low16(b - 1)
  IN  U8(BitOr(BitOr(BitOr(BitOr(BitOr(
        BitOr(BitAnd(BitAnd(newVal, 255), FlagR3),
              BitAnd(BitAnd(newVal, 255), FlagR5)),
        IF BitAnd(newVal, 128) # 0 THEN FlagS ELSE 0),
        IF BitAnd(newVal, 255) = 0 THEN FlagZ ELSE 0),
        IF BitAnd(b, 15) = 0 THEN FlagH ELSE 0),
        IF BitAnd(b, 255) = 128 THEN FlagPV ELSE 0),
        FlagN))

\* the value (aAfter << 8 | fAfter) & 65535 the start function computes for
\* the key (H * 4 + N * 2 + C) << 8 | b
daaValue(key) ==
  LET b == key % 256
      H == (key \div 1024) % 2
      N == (key \div 512) % 2
      C == (key \div 256) % 2
      hNibble == b \div 16
      lNibble == BitAnd(b, 15)
      dc == IF C = 0
            THEN IF hNibble <= 9 /\ lNibble <= 9
                 THEN <<IF H = 0 THEN 0 ELSE 6, 0>>
                 ELSE IF hNibble <= 8 /\ lNibble >= 10
                 THEN <<6, 0>>
                 ELSE IF hNibble >= 10 /\ lNibble <= 9 /\ H = 0
                 THEN <<96, 1>>
                 ELSE IF hNibble >= 9 /\ lNibble >= 10
                 THEN <<102, 1>>
                 ELSE IF hNibble >= 10 /\ lNibble <= 9
                 THEN <<IF H = 1 THEN 102 ELSE 0, 1>>
                 ELSE <<0, 0>>
            ELSE IF lNibble <= 9
                 THEN <<IF H = 0 THEN 96 ELSE 102, 1>>
                 ELSE <<102, 1>>
      diff == dc[1]
      cAfter == dc[2]
      hAfter == IF \/ lNibble >= 10 /\ N = 0
                   \/ lNibble <= 5 /\ N = 1 /\ H = 1
                THEN 1 ELSE 0
      aAfter == IF N = 0 THEN BitAnd(b + diff, 255)
                ELSE BitAnd(Low16(b - diff), 255)
      fAfter ==
        BitOr(BitOr(BitOr(BitOr(BitOr(BitOr(
          BitOr(BitAnd(aAfter, FlagR3), BitAnd(aAfter, FlagR5)),
          IF BitAnd(aAfter, 128) # 0 THEN FlagS ELSE 0),
          IF aAfter = 0 THEN FlagZ ELSE 0),
          IF BitCount(aAfter) % 2 = 0 THEN FlagPV ELSE 0),
          IF N = 1 THEN FlagN ELSE 0),
          IF hAfter = 1 THEN FlagH ELSE 0),
          IF cAfter = 1 THEN FlagC ELSE 0)
  IN  BitAnd(BitOr(aAfter * 256, BitAnd(fAfter, 255)), 65535)

\* daaResults[key]: the element Array<u8>#__set stores for daaValue(key)
daaResults(key) == U8(daaValue(key))

\* the host reads one entry of the named table; the arguments record the
\* index and the entry
ReadTable(name, index, entry) ==
  /\ steps < MaxAluSteps
  /\ last' = Done(name, <<index, entry>>, Ctx(cpu, mem))
  /\ steps' = steps + 1
  /\ UNCHANGED <<cpu, mem, cpuPool, engine>>

\* adcFlags[(cin << 16) | (X << 8) | Y]
ReadAdcFlags ==
  \E cin \in 0..1, X \in AluValues, Y \in AluValues :
    ReadTable("adcFlags", cin * 65536 + X * 256 + Y,
              adcFlags(cin * 65536 + X * 256 + Y))

\* sbcFlags[(cin << 16) | (X << 8) | Y]
ReadSbcFlags ==
  \E cin \in 0..1, X \in AluValues, Y \in AluValues :
    ReadTable("sbcFlags", cin * 65536 + X * 256 + Y,
              sbcFlags(cin * 65536 + X * 256 + Y))

\* incOpFlags[v]
ReadIncOpFlags == \E v \in 0..255 : ReadTable("incOpFlags", v, incOpFlags(v))

\* decOpFlags[v]
ReadDecOpFlags == \E v \in 0..255 : ReadTable("decOpFlags", v, decOpFlags(v))

\* daaResults[(flags << 8) | A], flags = H * 4 + N * 2 + C; the accumulator
\* values have their nibbles at and next to the decimal boundaries
ReadDaaResults ==
  \E flags \in 0..7,
     A \in {16 * h + l : h \in {0, 8, 9, 10, 15}, l \in {0, 5, 6, 9, 10, 15}} :
    ReadTable("daaResults", flags * 256 + A, daaResults(flags * 256 + A))

NextTables ==
  \/ ReadAdcFlags
  \/ ReadSbcFlags
  \/ ReadIncOpFlags
  \/ ReadDecOpFlags
  \/ ReadDaaResults

\* the module after its start function has filled the tables
SpecTables == InitRegs /\ [][NextTables]_vars

(***************************************************************************)
(* The host using one Spectrum engine                                      *)
(***************************************************************************)
\* the calls the host makes on one engine
MaxEngineSteps == 3

\* what getCpuConfiguration returns: the clock of a Spectrum 48K, or a
\* doubled clock with the extended instructions
CpuConfigurations ==
  {[baseClockFrequency |-> <<26592, 53>>, clockMultiplier |-> 1,
    supportsNextOperations |-> FALSE],
   [baseClockFrequency |-> <<26592, 53>>, clockMultiplier |-> 2,
    supportsNextOperations |-> TRUE]}

\* what getScreenConfiguration returns and restoreScreenConfiguration fills:
\* the screen of a Spectrum 48K and of a Spectrum 128K
ScreenConfigurations ==
  {[interruptTact |-> t[1], verticalSyncLines |-> 8,
    nonVisibleBorderTopLines |-> t[2], borderTopLines |-> 48,
    displayLines |-> 192, borderBottomLines |-> 48,
    nonVisibleBorderBottomLines |-> 8, horizontalBlankingTime |-> 40,
    borderLeftTime |-> 24, displayLineTime |-> 128, borderRightTime |-> 24,
    nonVisibleBorderRightTime |-> t[3], pixelDataPrefetchTime |-> 2,
    attributeDataPrefetchTime |-> 1] : t \in {<<11, 8, 8>>, <<14, 7, 12>>}}

\* what the reader of a stream returns to restoreEngineState: the byte u at
\* ulaIssue, the other values from v, a CPU as constructed or with PC and
\* tacts set, the screen of a Spectrum 48K for v = 0 and of a 128K otherwise
ReaderResults ==
  {[cpu |-> IF v = 0 THEN Z80CpuConstructor(0)
            ELSE [Z80CpuConstructor(0) EXCEPT !.pc = 4660,
                                              !.tacts = <<9, 0, v, 0>>],
    ulaIssue |-> u,
    baseClockFrequency |-> <<26592, 53 + v>>,
    clockMultiplier |-> v,
    sc |-> CHOOSE c \in ScreenConfigurations :
             (c.interruptTact = 11) = (v = 0),
    currentFrameTact |-> <<v, 0>>,
    frameCount |-> <<2 * v, v>>,
    frameBegins |-> <<v, 0, 0, 0>>,
    frameCompleted |-> v,
    overflow |-> <<v, 0>>,
    contentionAccummulated |-> <<3 * v, 0>>,
    lastExecutionStartTact |-> <<0, v, 0, 0>>,
    lastExecutionContentionValue |-> <<v, v>>] :
     u \in {0, 2, 3, 255}, v \in {0, 1, 37}}

\* new SpectrumEngine() by the host, as long as the machine module holds no
\* engine: the engine followed is then the one of the module
NewEngine ==
  /\ steps < MaxEngineSteps
  /\ ~engine.isMachineInstance
  /\ engine' = SpectrumEngine_constructor
  /\ cpu' = Z80CpuConstructor(0)
  /\ last' = Done("SpectrumEngine", << >>, Ctx(cpu, mem))
  /\ steps' = steps + 1
  /\ UNCHANGED <<mem, cpuPool>>

\* initSpectrumMachine(type): a new engine stored in spectrum, the callbacks
\* of the Spectrum 48K, then setup(). setBeeperSampleRate is not among the
\* callbacks assigned, so setup throws; the arguments record it
InitSpectrumMachine ==
  /\ steps < MaxEngineSteps
  /\ \E type \in {"None", "Spectrum48"}, cpuConfig \in CpuConfigurations,
        scr \in ScreenConfigurations :
       LET s == setup([SpectrumEngine_constructor
                         EXCEPT !.isMachineInstance = TRUE],
                      Z80CpuConstructor(0), cpuConfig, scr, FALSE)
       IN  /\ engine' = s.engine
           /\ cpu' = s.cpu
           /\ last' = Done("initSpectrumMachine",
                           <<type, cpuConfig, scr, s.throws>>, Ctx(cpu, mem))
  /\ steps' = steps + 1
  /\ UNCHANGED <<mem, cpuPool>>

\* turnOnSpectrumMachine(): it throws when spectrum is unset, else
\* spectrum.cpu.turnOn(); the argument records whether it threw
TurnOnSpectrumMachine ==
  /\ steps < MaxEngineSteps
  /\ cpu' = IF engine.isMachineInstance THEN turnOn(cpu) ELSE cpu
  /\ last' = Done("turnOnSpectrumMachine", <<~engine.isMachineInstance>>,
                  Ctx(cpu, mem))
  /\ steps' = steps + 1
  /\ UNCHANGED <<mem, cpuPool, engine>>

\* resetSpectrumMachine(): it throws when spectrum is unset, else the CPU
\* reset and four device resets; the argument records whether it threw
ResetSpectrumMachine ==
  /\ steps < MaxEngineSteps
  /\ cpu' = IF engine.isMachineInstance THEN executeReset(cpu) ELSE cpu
  /\ engine' = IF engine.isMachineInstance
               THEN [engine EXCEPT !.devices.memory = "reset",
                                   !.devices.port = "reset",
                                   !.devices.interrupt = "reset",
                                   !.devices.screen = "reset"]
               ELSE engine
  /\ last' = Done("resetSpectrumMachine", <<~engine.isMachineInstance>>,
                  Ctx(cpu, mem))
  /\ steps' = steps + 1
  /\ UNCHANGED <<mem, cpuPool>>

\* engine.reset(): this.cpu.reset()
ResetEngine ==
  /\ steps < MaxEngineSteps
  /\ cpu' = executeReset(cpu)
  /\ last' = Done("SpectrumEngine.reset", << >>, Ctx(cpu, mem))
  /\ steps' = steps + 1
  /\ UNCHANGED <<mem, cpuPool, engine>>

\* engine.setup() after the host has assigned every callback of the engine
Setup ==
  /\ steps < MaxEngineSteps
  /\ \E cpuConfig \in CpuConfigurations, scr \in ScreenConfigurations :
       LET s == setup(engine, cpu, cpuConfig, scr, TRUE)
       IN  /\ engine' = s.engine
           /\ cpu' = s.cpu
           /\ last' = Done("setup", <<cpuConfig, scr>>, Ctx(cpu, mem))
  /\ steps' = steps + 1
  /\ UNCHANGED <<mem, cpuPool>>

\* engine.executeCycle(options)
ExecuteCycle ==
  /\ steps < MaxEngineSteps
  /\ \E mode \in {"UntilUlaFrameEnds", "Continuous"} :
       LET options == [emulationMode |-> mode]
       IN  /\ engine' = executeCycle(engine, cpu, options)
           /\ last' = Done("executeCycle", <<options>>, Ctx(cpu, mem))
  /\ steps' = steps + 1
  /\ UNCHANGED <<cpu, mem, cpuPool>>

\* engine.ulaIssue = value
SetUlaIssue ==
  /\ steps < MaxEngineSteps
  /\ \E value \in {0, 1, 2, 3, 4, 255} :
       /\ engine' = set_ulaIssue(engine, value)
       /\ last' = Done("set:ulaIssue", <<value>>, Ctx(cpu, mem))
  /\ steps' = steps + 1
  /\ UNCHANGED <<cpu, mem, cpuPool>>

\* engine.serializeEngineState(); the arguments record the calls it makes
SerializeEngineState ==
  /\ steps < MaxEngineSteps
  /\ last' = Done("serializeEngineState",
                  <<serializeEngineState(engine, cpu)>>, Ctx(cpu, mem))
  /\ steps' = steps + 1
  /\ UNCHANGED <<cpu, mem, cpuPool, engine>>

\* engine.restoreEngineState(state); the arguments record what the reader
\* of the stream returned
RestoreEngineState ==
  /\ steps < MaxEngineSteps
  /\ \E rd \in ReaderResults :
       LET s == restoreEngineState(engine, rd)
       IN  /\ engine' = s.engine
           /\ cpu' = s.cpu
           /\ last' = Done("restoreEngineState", <<rd>>, Ctx(cpu, mem))
  /\ steps' = steps + 1
  /\ UNCHANGED <<mem, cpuPool>>

\* the calls on the engine and the machine, and the calls the host makes on
\* the CPU the engine hands out
NextEngine ==
  \/ NewEngine
  \/ InitSpectrumMachine
  \/ TurnOnSpectrumMachine
  \/ ResetSpectrumMachine
  \/ ResetEngine
  \/ Setup
  \/ ExecuteCycle
  \/ SetUlaIssue
  \/ SerializeEngineState
  \/ RestoreEngineState
  \/ Next
  \/ NextRegs
  \/ NextOps
  \/ NextCalls
  \/ NextAlu

\* a constructed engine and the calls of its host
SpecEngine == InitRegs /\ [][NextEngine]_vars

(***************************************************************************)
(* Properties                                                              *)
(***************************************************************************)
\* is the signal bit set in the state flags of c
HasFlag(c, bit) == (c.stateFlags \div bit) % 2 = 1

\* did the last call enter the named service
InCalls(name) == \E k \in 1..Len(last.calls) : last.calls[k] = name

\* the four signal services
ServiceNames == {"executeInterrupt", "haltStep", "executeReset", "executeNmi"}

\* how many signal services the last call completed
ServiceCount ==
  Cardinality({k \in 1..Len(last.calls) : last.calls[k] \in ServiceNames})

\* the last call was an executeCpuCycle
Cycled == last.op = "executeCpuCycle"

\* the accepted-interrupt condition on the state the last call started from
PreAccepted ==
  /\ HasFlag(last.pre, 1)
  /\ last.pre.iff1 = 1
  /\ last.pre.isInterruptBlocked = 0

\* the byte of host memory at addr
MemAt(addr) == HostRead(mem, addr)

\* the return address of a service of the last call: PC, stepped over the
\* HALT opcode when the CPU was halted
RetAddr ==
  IF HasFlag(last.pre, 8) THEN (last.pre.pc + 1) % 65536 ELSE last.pre.pc

\* C1 as stated: every executeCpuCycle call that starts with a signal bit
\* set completes exactly one signal service and fetches no opcode.
C1_Original ==
  (Cycled /\ last.pre.stateFlags # 0) =>
    (ServiceCount = 1 /\ ~InCalls("readCodeMemory"))

\* C1 amended: a call that starts with an accepted INT (INT set, IFF1 = 1,
\* not interrupt-blocked) or with HALT, RESET or NMI set completes exactly
\* one signal service and fetches no opcode; a call whose only signal is an
\* INT that is not accepted completes no service and fetches an opcode.
C1_Amended ==
  Cycled =>
    /\ (PreAccepted \/ HasFlag(last.pre, 2) \/ HasFlag(last.pre, 4)
           \/ HasFlag(last.pre, 8))
         => (ServiceCount = 1 /\ Len(last.calls) = 1
             /\ ~InCalls("readCodeMemory"))
    /\ (last.pre.stateFlags = 1 /\ ~PreAccepted)
         => (ServiceCount = 0 /\ InCalls("readCodeMemory"))

\* a call that started with all four signals set and IFF1 = 0 completed one
\* service
C1_Witness ==
  /\ Cycled
  /\ last.pre.stateFlags = 15
  /\ last.pre.iff1 = 0
  /\ ServiceCount = 1

\* C2 as stated: when HALT is pending together with RESET or NMI and no INT
\* is accepted, the call executes the RESET, respectively the NMI, not the
\* HALT idle step, and the CPU has left the HALT state when it returns.
C2_Original ==
  (Cycled /\ HasFlag(last.pre, 8) /\ ~PreAccepted
     /\ (HasFlag(last.pre, 4) \/ HasFlag(last.pre, 2))) =>
    /\ ~InCalls("haltStep")
    /\ InCalls("executeReset") \/ InCalls("executeNmi")
    /\ ~HasFlag(cpu, 8)

\* C3: a call acknowledges the INT exactly when INT is pending with IFF1 = 1
\* and is_interrupt_blocked = 0 at its start, and then it runs nothing else,
\* whatever other signals are pending.
C3_IntAcknowledge ==
  Cycled =>
    /\ InCalls("executeInterrupt") <=> PreAccepted
    /\ InCalls("executeInterrupt") => last.calls = <<"executeInterrupt">>

\* an INT acknowledged while HALT, RESET and NMI were pending as well
C3_Witness ==
  /\ Cycled
  /\ last.pre.stateFlags = 15
  /\ PreAccepted
  /\ last.calls = <<"executeInterrupt">>

\* C6: reset() and a serviced RESET signal end with PC, I, R, IFF1, IFF2,
\* interrupt_mode, prefix_mode, index_mode, is_interrupt_blocked,
\* state_flags and tacts all zero.
C6_ResetState ==
  (last.op = "reset" \/ (Cycled /\ InCalls("executeReset"))) =>
    /\ cpu.pc = 0 /\ cpu.i = 0 /\ cpu.r = 0
    /\ cpu.iff1 = 0 /\ cpu.iff2 = 0
    /\ cpu.interruptMode = 0
    /\ cpu.prefixMode = 0 /\ cpu.indexMode = 0
    /\ cpu.isInterruptBlocked = 0
    /\ cpu.stateFlags = 0
    /\ cpu.tacts = <<0, 0, 0, 0>>

\* a RESET signal serviced from a state in which none of these was zero
C6_Witness ==
  /\ Cycled /\ InCalls("executeReset")
  /\ last.pre.pc # 0 /\ last.pre.i # 0 /\ last.pre.r # 0
  /\ last.pre.iff1 = 1 /\ last.pre.iff2 = 1
  /\ last.pre.interruptMode = 2
  /\ last.pre.prefixMode # 0 /\ last.pre.indexMode # 0
  /\ last.pre.isInterruptBlocked = 1
  /\ last.pre.tacts[3] = 1

\* C7: after executeNmi IFF2 holds the IFF1 of before, IFF1 is 0, the HALT
\* bit is clear, SP is 2 lower modulo 2^16, the return address lies on the
\* stack (high byte at SP+1, low byte at SP) and PC is 0x0066.
C7_NmiEntry ==
  (Cycled /\ InCalls("executeNmi")) =>
    /\ cpu.iff2 = last.pre.iff1
    /\ cpu.iff1 = 0
    /\ ~HasFlag(cpu, 8)
    /\ cpu.sp = (last.pre.sp + 65534) % 65536
    /\ MemAt((cpu.sp + 1) % 65536) = RetAddr \div 256
    /\ MemAt(cpu.sp) = RetAddr % 256
    /\ cpu.pc = 102

\* an NMI taken with IFF1 = 1, IFF2 = 0 and a stack pointer that wraps
C7_Witness ==
  /\ Cycled /\ InCalls("executeNmi")
  /\ last.pre.iff1 = 1 /\ last.pre.iff2 = 0
  /\ last.pre.sp = 1 /\ cpu.sp = 65535

\* the two writes of a push of the return address, high byte first
PushLog ==
  << [kind |-> "wr", addr |-> (last.pre.sp + 65535) % 65536,
      val |-> RetAddr \div 256],
     [kind |-> "wr", addr |-> (last.pre.sp + 65534) % 65536,
      val |-> RetAddr % 256] >>

\* C8: after an interrupt acknowledge in mode 0 or 1, IFF1 = IFF2 = 0, the
\* return address has been pushed high byte first, SP is 2 lower modulo
\* 2^16 and PC = WZ = 0x0038.
C8_IntMode01 ==
  (Cycled /\ InCalls("executeInterrupt") /\ last.pre.interruptMode \in {0, 1})
    =>
    /\ cpu.iff1 = 0 /\ cpu.iff2 = 0
    /\ last.log = PushLog
    /\ cpu.sp = (last.pre.sp + 65534) % 65536
    /\ cpu.pc = 56 /\ cpu.wz = 56

\* a mode 1 acknowledge that woke a halted CPU with IFF2 = 1
C8_Witness ==
  /\ Cycled /\ InCalls("executeInterrupt")
  /\ last.pre.interruptMode = 1
  /\ HasFlag(last.pre, 8)
  /\ last.pre.iff2 = 1
  /\ cpu.pc = 56

\* C9 as stated: after an interrupt acknowledge in mode 2, PC = WZ = the
\* little-endian word in memory at (I << 8) | 0xFF.
C9_Original ==
  (Cycled /\ InCalls("executeInterrupt") /\ last.pre.interruptMode = 2) =>
    /\ cpu.pc = cpu.wz
    /\ cpu.pc = MemAt(last.pre.i * 256 + 255)
                 + 256 * MemAt((last.pre.i * 256 + 256) % 65536)

\* C10 as stated: servicing an NMI adds 11 tacts, an interrupt acknowledge
\* in mode 0 or 1 adds 13 tacts and one in mode 2 adds 19 tacts.
C10_Original ==
  /\ (Cycled /\ InCalls("executeNmi"))
       => cpu.tacts = I64Add(last.pre.tacts, 11)
  /\ (Cycled /\ InCalls("executeInterrupt")
         /\ last.pre.interruptMode \in {0, 1})
       => cpu.tacts = I64Add(last.pre.tacts, 13)
  /\ (Cycled /\ InCalls("executeInterrupt") /\ last.pre.interruptMode = 2)
       => cpu.tacts = I64Add(last.pre.tacts, 19)

\* C4 as stated: applying a snapshot right after taking it leaves every
\* snapshot field unchanged.
C4_Original ==
  last.op = "roundTrip" => getCpuState(cpu) = getCpuState(last.pre)

\* the other registers and fields of the CPU are as before the last call
OnlyPairChanged(n) == cpu = [last.pre EXCEPT ![n] = cpu[n]]

\* C5 as stated: every pair equals high * 256 + low, and a write of v to a
\* half makes the half read back v and changes neither the other half of
\* the pair nor any other register.
C5_Original ==
  /\ \A n \in PairNames :
       getPairOf(cpu, n) = getHighOf(cpu, n) * 256 + getLowOf(cpu, n)
  /\ last.op = "setHigh" =>
       /\ getHighOf(cpu, last.args[1]) = last.args[2]
       /\ getLowOf(cpu, last.args[1]) = getLowOf(last.pre, last.args[1])
       /\ OnlyPairChanged(last.args[1])
  /\ last.op = "setLow" =>
       /\ getLowOf(cpu, last.args[1]) = last.args[2]
       /\ getHighOf(cpu, last.args[1]) = getHighOf(last.pre, last.args[1])
       /\ OnlyPairChanged(last.args[1])

\* the first bus operation of the last call, when it is a read: the fetch
FetchedByte == last.log[1].val

\* C11: a call that starts with the HALT bit set and no accepted INT leaves
\* PC, every register other than R, every control field and the memory
\* unchanged, keeps the HALT bit, adds exactly 4 tacts and increments the
\* low 7 bits of R once; this holds for each such call in a row.
C11_HaltIdle ==
  (Cycled /\ HasFlag(last.pre, 8) /\ ~PreAccepted) =>
    /\ cpu = [last.pre EXCEPT
                !.r = (last.pre.r \div 128) * 128 + ((last.pre.r + 1) % 128),
                !.tacts = I64Add(last.pre.tacts, 4)]
    /\ mem = last.premem
    /\ HasFlag(cpu, 8)

\* the second of two idle steps in a row: tacts 0, 4, 8 and R 127, 0, 1
C11_Witness ==
  /\ Cycled /\ steps = 2
  /\ HasFlag(last.pre, 8) /\ ~PreAccepted
  /\ last.pre.tacts = <<4, 0, 0, 0>> /\ cpu.tacts = <<8, 0, 0, 0>>
  /\ last.pre.r = 0 /\ cpu.r = 1

\* C12: an INT acknowledged while the HALT bit is set clears the HALT bit
\* and pushes PC + 1, the address of the instruction after HALT; and a call
\* takes the HALT idle step only when it starts with the HALT bit set, so
\* the calls after the acknowledge do not idle.
C12_IntLeavesHalt ==
  /\ (Cycled /\ PreAccepted /\ HasFlag(last.pre, 8)) =>
        /\ InCalls("executeInterrupt")
        /\ ~HasFlag(cpu, 8)
        /\ Len(last.log) >= 2
        /\ last.log[1] = [kind |-> "wr",
                          addr |-> (last.pre.sp + 65535) % 65536,
                          val |-> ((last.pre.pc + 1) % 65536) \div 256]
        /\ last.log[2] = [kind |-> "wr",
                          addr |-> (last.pre.sp + 65534) % 65536,
                          val |-> ((last.pre.pc + 1) % 65536) % 256]
  /\ (Cycled /\ InCalls("haltStep")) => HasFlag(last.pre, 8)

\* the call after a mode 0/1 acknowledge that woke a CPU halted at 0x1234:
\* the stack holds the low byte of 0x1235 and the call does not idle
C12_Witness ==
  /\ Cycled /\ steps = 2
  /\ last.pre.pc = 56 /\ last.pre.wz = 56
  /\ 65535 \in DOMAIN last.premem /\ last.premem[65535] = 53
  /\ ~HasFlag(last.pre, 8)
  /\ ~InCalls("haltStep")

\* C14 as stated: a call that services no signal reads the byte at PC,
\* stores it in op_code, increments PC modulo 2^16 and adds 4 tacts.
C14_Original ==
  (Cycled /\ ServiceCount = 0) =>
    /\ InCalls("readCodeMemory")
    /\ last.log[1].kind = "rd" /\ last.log[1].addr = last.pre.pc
    /\ cpu.opCode = FetchedByte
    /\ cpu.pc = (last.pre.pc + 1) % 65536
    /\ cpu.tacts = I64Add(last.pre.tacts, 4)

\* C15: a call that services no RESET leaves bit 7 of R as it was, and a
\* call that fetches an opcode replaces R by (R & 0x80) | ((R + 1) & 0x7F).
C15_RefreshRegister ==
  /\ (Cycled /\ ~InCalls("executeReset")) =>
        cpu.r \div 128 = last.pre.r \div 128
  /\ (Cycled /\ InCalls("readCodeMemory")) =>
        cpu.r = (last.pre.r \div 128) * 128 + ((last.pre.r + 1) % 128)

\* an opcode fetch with R = 0xFF: the low 7 bits wrap, bit 7 stays
C15_Witness ==
  /\ Cycled /\ InCalls("readCodeMemory")
  /\ last.pre.r = 255 /\ cpu.r = 128

\* C18 as stated: a call that starts with is_interrupt_blocked set and
\* executes an instruction other than EI (0xFB), DI (0xF3), DD or FD
\* returns with is_interrupt_blocked clear.
C18_Original ==
  (Cycled /\ last.pre.isInterruptBlocked = 1 /\ InCalls("readCodeMemory")
     /\ FetchedByte \notin {251, 243, 221, 253}) =>
    cpu.isInterruptBlocked = 0

\* the last call fetched an opcode with no signal pending and no prefix or
\* index mode in effect
PlainFetch ==
  /\ Cycled /\ InCalls("readCodeMemory")
  /\ last.pre.stateFlags = 0
  /\ last.pre.prefixMode = 0 /\ last.pre.indexMode = 0

\* the 8-bit operand with the given code in CPU c and memory m:
\* 0 B, 1 C, 2 D, 3 E, 4 H, 5 L, 6 (HL), 7 A
Operand8(c, m, code) ==
  CASE code = 0 -> c.bc \div 256
    [] code = 1 -> c.bc % 256
    [] code = 2 -> c.de \div 256
    [] code = 3 -> c.de % 256
    [] code = 4 -> c.hl \div 256
    [] code = 5 -> c.hl % 256
    [] code = 6 -> HostRead(m, c.hl)
    [] code = 7 -> c.af \div 256

\* 2^n for a bit number
Pow2(n) == CASE n = 0 -> 1 [] n = 1 -> 2 [] n = 2 -> 4 [] n = 3 -> 8
             [] n = 4 -> 16 [] n = 5 -> 32 [] n = 6 -> 64 [] n = 7 -> 128

\* v with bit n cleared
ClearBit(v, n) == IF (v \div Pow2(n)) % 2 = 1 THEN v - Pow2(n) ELSE v

\* the register pairs of the CPU are as before the last call
PairsKept ==
  \A n \in {"af", "bc", "de", "hl", "af_sec", "bc_sec", "de_sec", "hl_sec",
           "ix", "iy", "sp"} : cpu[n] = last.pre[n]

\* C13 as stated: executing opcode 0x76 from state_flags = 0 sets the HALT
\* bit, leaves PC at the HALT opcode, adds 4 tacts and changes no register
\* pair and no memory byte.
C13_Original ==
  (PlainFetch /\ FetchedByte = 118) =>
    /\ HasFlag(cpu, 8)
    /\ cpu.pc = last.pre.pc
    /\ cpu.tacts = I64Add(last.pre.tacts, 4)
    /\ PairsKept
    /\ mem = last.premem

\* C16 as stated: a fetched prefix byte executes no instruction; 0xDD sets
\* index_mode = IX and 0xFD index_mode = IY, both set is_interrupt_blocked;
\* 0xED sets prefix_mode = ED and clears index_mode; 0xCB sets prefix_mode
\* = CB.
C16_Original ==
  (Cycled /\ InCalls("readCodeMemory") /\ last.pre.stateFlags = 0
     /\ last.pre.prefixMode = 0) =>
    /\ FetchedByte = 221 =>
         (cpu.indexMode = OpIndexModeIX /\ cpu.isInterruptBlocked = 1)
    /\ FetchedByte = 253 =>
         (cpu.indexMode = OpIndexModeIY /\ cpu.isInterruptBlocked = 1)
    /\ FetchedByte = 237 =>
         (cpu.prefixMode = OpPrefixModeExtended
            /\ cpu.indexMode = OpIndexModeNone)
    /\ FetchedByte = 203 => cpu.prefixMode = OpPrefixModeBit
    /\ FetchedByte \in {221, 253, 237, 203} =>
         (PairsKept /\ mem = last.premem)

\* C17 as stated: a call that executed a terminal (non-prefix) instruction,
\* and a call of the executor of an ED-prefixed or CB-prefixed instruction,
\* ends with prefix_mode = None and index_mode = None.
C17_Original ==
  /\ (Cycled /\ InCalls("readCodeMemory") /\ last.pre.stateFlags = 0
        /\ FetchedByte \notin {221, 253, 237, 203}) =>
       (cpu.prefixMode = OpPrefixModeNone /\ cpu.indexMode = OpIndexModeNone)
  /\ (last.op \in {"processEDOperations", "processCBPrefixedOperations"}
        /\ ~InCalls("abort")) =>
       (cpu.prefixMode = OpPrefixModeNone /\ cpu.indexMode = OpIndexModeNone)

\* C19 as stated: an opcode 0x40 + 8q + w other than 0x76, executed with no
\* signal and no prefix, copies operand w into operand q, advances PC by 1
\* and adds 7 tacts when (HL) is the source or the destination, else 4.
C19_Original ==
  (PlainFetch /\ FetchedByte \in (64..127) \ {118}) =>
    LET q == (FetchedByte - 64) \div 8
        w == FetchedByte % 8
    IN  /\ Operand8(cpu, mem, q) = Operand8(last.pre, last.premem, w)
        /\ cpu.pc = (last.pre.pc + 1) % 65536
        /\ cpu.tacts = I64Add(last.pre.tacts, IF q = 6 \/ w = 6 THEN 7 ELSE 4)

\* C20 as stated: the two calls that execute 0xCB, 0x80 + 8n + code clear
\* bit n of the operand and keep its other bits, change no flag, advance PC
\* by 2 and add 8 tacts for a register operand and 15 tacts for (HL).
C20_Original ==
  [][ (/\ PlainFetch /\ FetchedByte = 203
       /\ last'.op = "executeCpuCycle"
       /\ Len(last'.log) >= 1 /\ last'.log[1].kind = "rd"
       /\ last'.log[1].val \in 128..191) =>
      LET n == (last'.log[1].val - 128) \div 8
          code == last'.log[1].val % 8
      IN  /\ Operand8(cpu', mem', code)
               = ClearBit(Operand8(last.pre, last.premem, code), n)
          /\ cpu'.af % 256 = last.pre.af % 256
          /\ cpu'.pc = (last.pre.pc + 2) % 65536
          /\ cpu'.tacts = I64Add(last.pre.tacts,
                                 IF code = 6 THEN 15 ELSE 8) ]_vars

\* C30 as stated: after every maskable interrupt acknowledge
\* maskable_interrupt_mode_entered equals 1.
C30_Original ==
  (Cycled /\ InCalls("executeInterrupt")) =>
    cpu.maskableInterruptModeEntered = 1

\* the register file is all-ones
AllOnes(c) ==
  /\ \A n \in {"af", "bc", "de", "hl", "af_sec", "bc_sec", "de_sec", "hl_sec",
              "ix", "iy", "sp", "pc", "wz"} : c[n] = 65535
  /\ c.i = 255 /\ c.r = 255

\* the control-state fields
ControlFields ==
  {"tacts", "stateFlags", "iff1", "iff2", "interruptMode",
   "isInterruptBlocked", "isInOpExecution", "prefixMode", "indexMode"}

\* C26 as stated: right after construction every register is all-ones and
\* every control-state field is zero.
C26_Original ==
  last.op = "init" =>
    /\ AllOnes(cpu)
    /\ cpu.tacts = I64Zero
    /\ \A n \in ControlFields \ {"tacts"} : cpu[n] = 0

\* C27 as stated: turn_on() leaves every register all-ones and changes no
\* control-state field, op_code included.
C27_Original ==
  last.op = "turnOn" =>
    /\ AllOnes(cpu)
    /\ \A n \in ControlFields \cup {"opCode"} : cpu[n] = last.pre[n]

\* C29: get_reg8 with code 6 or a code above 7 returns 0xFF and changes no
\* state; set_reg8 with such a code changes no state.
C29_InvalidRegCode ==
  /\ (last.op = "getReg8" /\ (last.args[1] = 6 \/ last.args[1] > 7)) =>
       (last.args[2] = 255 /\ cpu = last.pre /\ mem = last.premem)
  /\ (last.op = "setReg8" /\ (last.args[1] = 6 \/ last.args[1] > 7)) =>
       (cpu = last.pre /\ mem = last.premem)

\* get_reg8(6) answered 0xFF on a CPU whose H and L the host had changed
C29_Witness ==
  /\ last.op = "getReg8" /\ last.args = <<6, 255>>
  /\ cpu.hl # 65535

\* the last call wrote no byte of memory
NoWrite ==
  /\ \A k \in 1..Len(last.log) : last.log[k].kind # "wr"
  /\ mem = last.premem

\* the register pair that holds the 8-bit register with the given code
PairOfCode(code) ==
  CASE code \in {0, 1} -> "bc" [] code \in {2, 3} -> "de"
    [] code \in {4, 5} -> "hl" [] OTHER -> "af"

\* C21 as stated: a call that executes LD r,r' with register operands, or
\* that fetches the CB prefix of a RES n,r with a register operand, issues
\* no write_memory and leaves memory unchanged; LD r,r' changes no register
\* pair but the one holding the destination.
C21_Original ==
  /\ (PlainFetch /\ FetchedByte \in (64..127)
        /\ (FetchedByte - 64) \div 8 # 6 /\ FetchedByte % 8 # 6) =>
       /\ NoWrite
       /\ \A n \in {"af", "bc", "de", "hl", "af_sec", "bc_sec", "de_sec",
                   "hl_sec", "ix", "iy", "sp"} \
                     {PairOfCode((FetchedByte - 64) \div 8)} :
            cpu[n] = last.pre[n]
  /\ (PlainFetch /\ FetchedByte = 203
        /\ HostRead(last.premem, (last.pre.pc + 1) % 65536) \in 128..191
        /\ HostRead(last.premem, (last.pre.pc + 1) % 65536) % 8 # 6) =>
       NoWrite

\* CALL cc,nn; RST n; the repeating block opcodes after ED (LDIR, CPIR,
\* INIR, OTIR, LDDR, CPDR, INDR, OTDR)
ConditionalCalls == {196, 204, 212, 220, 228, 236, 244, 252}
Restarts == {199, 207, 215, 223, 231, 239, 247, 255}
RepeatingBlockOps == {176, 177, 178, 179, 184, 185, 186, 187}

\* C28 as stated: get_call_instruction_length returns 3 exactly for CALL nn
\* and the conditional CALLs, 1 exactly for RST n and HALT, 2 exactly for
\* ED followed by a repeating block opcode, 0 otherwise, and changes no
\* CPU state.
C28_Original ==
  last.op = "getCallInstructionLength" =>
    LET b1 == HostRead(last.premem, last.pre.pc)
        b2 == HostRead(last.premem, (last.pre.pc + 1) % 65536)
    IN  /\ last.args[1] =
             (IF b1 = 205 \/ b1 \in ConditionalCalls THEN 3
              ELSE IF b1 = 118 \/ b1 \in Restarts THEN 1
              ELSE IF b1 = 237 /\ b2 \in RepeatingBlockOps THEN 2
              ELSE 0)
        /\ cpu = last.pre
        /\ mem = last.premem

\* the last call was one of the named ALU helpers
AluCalled(names) == last.op \in names

\* the accumulator the last ALU helper started from
AluA == get_a(last.pre)

\* the operand the last ALU helper was given
AluArg == last.args[1]

\* the index (cin << 16) | (A << 8) | operand of the last ALU helper call
AluIndex(cin) == cin * 65536 + AluA * 256 + AluArg

\* C22: the F produced by ADD/ADC is adcFlags[(cin << 16) | (A << 8) |
\* operand] and the F produced by SUB/SBC is sbcFlags[(cin << 16) | (A << 8)
\* | operand], with cin = 0 for ADD and SUB and A the accumulator before the
\* operation
C22_Original ==
  /\ AluCalled({"AluADD"}) => get_f(cpu) = adcFlags(AluIndex(0))
  /\ AluCalled({"AluADC"}) => get_f(cpu) = adcFlags(AluIndex(last.args[2]))
  /\ AluCalled({"AluSUB"}) => get_f(cpu) = sbcFlags(AluIndex(0))
  /\ AluCalled({"AluSBC"}) => get_f(cpu) = sbcFlags(AluIndex(last.args[2]))

\* C23: after AND, OR or XOR the accumulator holds A & v, A | v or A ^ v, and
\* F is aluLogOpFlags[A'] for OR and XOR and aluLogOpFlags[A'] with H set for
\* AND
C23_Original ==
  /\ AluCalled({"AluAND"}) =>
       /\ get_a(cpu) = BitAnd(AluA, AluArg)
       /\ get_f(cpu) = BitOr(aluLogOpFlags(get_a(cpu)), FlagH)
  /\ AluCalled({"AluOR"}) =>
       /\ get_a(cpu) = BitOr(AluA, AluArg)
       /\ get_f(cpu) = aluLogOpFlags(get_a(cpu))
  /\ AluCalled({"AluXOR"}) =>
       /\ get_a(cpu) = BitXor(AluA, AluArg)
       /\ get_f(cpu) = aluLogOpFlags(get_a(cpu))

\* C24: CP leaves A unchanged and produces exactly the F that SUB produces
\* for the same accumulator, operand and incoming F
C24_Original ==
  AluCalled({"AluCP"}) =>
    /\ get_a(cpu) = AluA
    /\ get_f(cpu) = get_f(AluSUB(last.pre, AluArg, 0))

\* the last call was ADC with carry-in 1 and operand 0x00 on A = 0xFF
AdcFFPlusCarry ==
  /\ AluCalled({"AluADC"})
  /\ last.args = <<0, 1>>
  /\ AluA = 255

\* C25: ADC with carry-in 1, A = 0xFF and operand 0x00 yields A' = 0x00 with
\* H, C and Z set
C25_AdcCarryChain ==
  AdcFFPlusCarry =>
    /\ get_a(cpu) = 0
    /\ BitAnd(get_f(cpu), FlagH) = FlagH
    /\ BitAnd(get_f(cpu), FlagC) = FlagC
    /\ BitAnd(get_f(cpu), FlagZ) = FlagZ

\* the ADC of C25 has run and cleared the accumulator
C25_Witness == AdcFFPlusCarry /\ get_a(cpu) = 0 /\ steps = 1

\* C31 as stated: when NMI is the only signal set and a call has run
\* executeNmi, the next executeCpuCycle call fetches the opcode at 0x0066
\* and does not enter the NMI routine again, so SP stays 2 below its value
\* before the NMI.
C31_Original ==
  [][ (/\ Cycled /\ InCalls("executeNmi")
       /\ last.pre.stateFlags = StateFlagsNmi
       /\ last'.op = "executeCpuCycle") =>
      /\ \A k \in 1..Len(last'.calls) : last'.calls[k] # "executeNmi"
      /\ Len(last'.log) >= 1
      /\ last'.log[1].kind = "rd" /\ last'.log[1].addr = 102
      /\ cpu'.sp = cpu.sp
      /\ cpu'.sp = (last.pre.sp + 65534) % 65536 ]_vars

\* the pair addressed by a 2-bit register pair code
Pair16OfCode(code) ==
  CASE code = 0 -> "bc" [] code = 1 -> "de" [] code = 2 -> "hl"
    [] OTHER -> "sp"

\* the codes of the seven 8-bit registers
ValidReg8Codes == (0..5) \cup {7}

\* C32 as stated: get_reg16(code) after set_reg16(code, v) returns v for the
\* codes 0..3, get_reg8(code) after set_reg8(code, v) returns v for the codes
\* 0..5 and 7, and the set changes no register but the addressed one.
C32_Original ==
  [][ /\ (last'.op = "setReg16" /\ last'.args[1] \in 0..3) =>
           cpu' = [cpu EXCEPT ![Pair16OfCode(last'.args[1])] = last'.args[2]]
      /\ (last'.op = "setReg8" /\ last'.args[1] \in ValidReg8Codes) =>
           /\ getReg8(cpu', last'.args[1]) = last'.args[2]
           /\ \A code \in ValidReg8Codes \ {last'.args[1]} :
                getReg8(cpu', code) = getReg8(cpu, code)
           /\ cpu' = [cpu EXCEPT ![PairOfCode(last'.args[1])] =
                                   cpu'[PairOfCode(last'.args[1])]]
      /\ (/\ last.op = "setReg16" /\ last.args[1] \in 0..3
          /\ last'.op = "getReg16" /\ last'.args[1] = last.args[1]) =>
           last'.args[2] = last.args[2]
      /\ (/\ last.op = "setReg8" /\ last.args[1] \in ValidReg8Codes
          /\ last'.op = "getReg8" /\ last'.args[1] = last.args[1]) =>
           last'.args[2] = last.args[2] ]_vars

\* the slots of pool p that are free
FreeSlots(p) == {i \in 0..(cpuPoolMaxSize - 1) : ~p.used[i + 1]}

\* C33: createCpu returns the lowest-numbered free slot of 0..99 and marks it
\* used, so never an index in use, and returns -1 leaving the pool unchanged
\* exactly when all 100 slots are in use.
C33_CreateLowestFree ==
  [][ last'.op = "createCpu" =>
      LET ret == last'.args[1]
      IN  IF FreeSlots(cpuPool) = {}
          THEN ret = -1 /\ cpuPool' = cpuPool
          ELSE /\ ret \in FreeSlots(cpuPool)
               /\ \A i \in FreeSlots(cpuPool) : ret <= i
               /\ cpuPool'.used = [cpuPool.used EXCEPT ![ret + 1] = TRUE]
               /\ cpuPool'.items = [cpuPool.items EXCEPT ![ret + 1] = "Z80Cpu"]
    ]_vars

\* createCpu has answered -1 on a pool whose 100 slots are all in use
C33_Witness ==
  /\ last.op = "createCpu" /\ last.args = <<-1>>
  /\ FreeSlots(cpuPool) = {}

\* C34: a slot is used exactly when it holds a CPU object; releaseCpu(i) for
\* 0 <= i < 100 returns true and frees slot i, so that getCpu(i) yields
\* null, exactly when slot i was in use, and otherwise returns false and
\* changes nothing; resetCpuPool frees all 100 slots.
C34_ReleaseFrees ==
  [][ /\ Len(cpuPool'.used) = cpuPoolMaxSize
      /\ Len(cpuPool'.items) = cpuPoolMaxSize
      /\ \A i \in 0..(cpuPoolMaxSize - 1) :
           cpuPool'.used[i + 1] <=> (cpuPool'.items[i + 1] # "null")
      /\ (last'.op = "releaseCpu" /\ last'.args[1] \in 0..99) =>
           LET i == last'.args[1]
           IN  IF cpuPool.used[i + 1]
               THEN /\ last'.args[2] = TRUE
                    /\ cpuPool'.used = [cpuPool.used EXCEPT ![i + 1] = FALSE]
                    /\ ObjectPool_get(cpuPool', i) = "null"
                    /\ \A j \in (0..99) \ {i} :
                         cpuPool'.items[j + 1] = cpuPool.items[j + 1]
               ELSE last'.args[2] = FALSE /\ cpuPool' = cpuPool
      /\ last'.op = "resetCpuPool" =>
           FreeSlots(cpuPool') = 0..(cpuPoolMaxSize - 1) ]_vars

\* releaseCpu of the free slot 99 has answered false and changed nothing,
\* with slot 98 in use
C34_Witness ==
  /\ last.op = "releaseCpu" /\ last.args = <<99, FALSE>>
  /\ ~cpuPool.used[100] /\ cpuPool.items[100] = "null"
  /\ cpuPool.used[99]

\* the last step read an entry of one of the named tables
TableRead(names) == last.op \in names

\* the index and the entry of the last table read
TableIndex == last.args[1]
TableEntry == last.args[2]

\* the carry-in, first and second operand an adcFlags/sbcFlags index packs
TableCin == TableIndex \div 65536
TableX == (TableIndex \div 256) % 256
TableY == TableIndex % 256

\* the byte v read as a two's complement number
Signed8(v) == IF v >= 128 THEN v - 256 ELSE v

\* the flag bit is set in the entry read
EntryHas(flag) == BitAnd(TableEntry, flag) # 0

\* C35: adcFlags and sbcFlags entries carry C for the unsigned carry or
\* borrow of A, the operand and the carry-in, P/V for a signed sum or
\* difference outside [-128, 127], N = 0 for adcFlags and N = 1 for sbcFlags
C35_Original ==
  /\ TableRead({"adcFlags"}) =>
       /\ EntryHas(FlagC) <=> TableX + TableY + TableCin > 255
       /\ EntryHas(FlagPV) <=>
            Signed8(TableX) + Signed8(TableY) + TableCin \notin -128..127
       /\ ~EntryHas(FlagN)
  /\ TableRead({"sbcFlags"}) =>
       /\ EntryHas(FlagC) <=> TableX - TableY - TableCin < 0
       /\ EntryHas(FlagPV) <=>
            Signed8(TableX) - Signed8(TableY) - TableCin \notin -128..127
       /\ EntryHas(FlagN)

\* the accumulator and the H, N and C inputs a daaResults index packs
DaaA == TableIndex % 256
DaaH == (TableIndex \div 1024) % 2
DaaN == (TableIndex \div 512) % 2
DaaC == (TableIndex \div 256) % 2

\* C36: a daaResults entry is the packed 16-bit result (new A << 8) | new F
\* of the decimal adjustment for the accumulator and flags of its index
C36_Original ==
  TableRead({"daaResults"}) => TableEntry = daaValue(TableIndex)

\* the value INC or DEC produces from the operand of the last table read
IncDecResult ==
  IF last.op = "incOpFlags" THEN (TableIndex + 1) % 256
  ELSE (TableIndex + 255) % 256

\* C37: incOpFlags[v] and decOpFlags[v] hold N = 0 for INC and 1 for DEC, H
\* for the nibble carry or borrow, P/V only for 0x7F (INC) and 0x80 (DEC),
\* and Z, S, R3, R5 of the 8-bit result
C37_IncDecEntries ==
  TableRead({"incOpFlags", "decOpFlags"}) =>
    /\ EntryHas(FlagN) <=> last.op = "decOpFlags"
    /\ EntryHas(FlagH) <=>
         TableIndex % 16 = (IF last.op = "incOpFlags" THEN 15 ELSE 0)
    /\ EntryHas(FlagPV) <=>
         TableIndex = (IF last.op = "incOpFlags" THEN 127 ELSE 128)
    /\ EntryHas(FlagZ) <=> IncDecResult = 0
    /\ EntryHas(FlagS) <=> IncDecResult >= 128
    /\ EntryHas(FlagR3) <=> (IncDecResult \div 8) % 2 = 1
    /\ EntryHas(FlagR5) <=> (IncDecResult \div 32) % 2 = 1

\* the entry of incOpFlags for 0x7F has been read: S, H and P/V and the
\* result's R3 and R5 are zero
C37_Witness ==
  /\ TableRead({"incOpFlags"})
  /\ TableIndex = 127
  /\ TableEntry = FlagS + FlagH + FlagPV

\* C38: the engine's ulaIssue is 2 or 3 after any sequence of constructions,
\* ulaIssue assignments and restoreEngineState calls
C38_Original == engine.ulaIssue \in {2, 3}

\* the reads the call in the record l logged
ReadsOf(l) == {k \in 1..Len(l.log) : l.log[k].kind = "rd"}

\* the call in the record l fetched an opcode byte
FetchedIn(l) == \E k \in 1..Len(l.calls) : l.calls[k] = "readCodeMemory"

\* the address of the opcode fetch in the record l: nothing reads memory
\* after readCodeMemory, so it is the address of the last read logged
FetchAddrOf(l) ==
  l.log[CHOOSE k \in ReadsOf(l) : \A j \in ReadsOf(l) : j <= k].addr

\* the bits of the execution-flow bitmap a call sets: bit (a mod 32) of word
\* (a div 32) for the address a it fetched an opcode from
FetchedBits(l) ==
  IF FetchedIn(l)
  THEN {<<FetchAddrOf(l) \div 32, FetchAddrOf(l) % 32>>}
  ELSE {}

\* C40: the execution-flow bitmap is empty after construction, and every call
\* leaves it with the bits it had plus exactly bit (a mod 32) of word
\* (a div 32) for the address a an opcode was fetched from, within the 2048
\* words of 32 bits; no call clears a bit
C40_FlowBitmap ==
  /\ cpu.executionFlowStatus = {}
  /\ [][/\ cpu'.executionFlowStatus =
             cpu.executionFlowStatus \cup FetchedBits(last')
        /\ FetchedBits(last') \subseteq (0..2047) \X (0..31)]_vars

\* opcodes have been fetched from 0xFFFF and then from 0x0000: bit 31 of
\* word 2047 and bit 0 of word 0 are the bits set
C40_Witness ==
  /\ last.op = "executeCpuCycle"
  /\ FetchedIn(last)
  /\ FetchAddrOf(last) = 0
  /\ cpu.executionFlowStatus = {<<2047, 31>>, <<0, 0>>}
====
